---- MODULE Spec2Model ----
(***************************************************************************)
(* Model of the simple-chatbot repository: the persistence service         *)
(* (app/conversation_service.py), the response generator and orchestrator  *)
(* (app/chatbot_service.py), the data model (app/models.py) and the page   *)
(* and event handlers of the UI layer (app/chatbot.py).                    *)
(*                                                                         *)
(* Text (message content, titles) is a sequence of one-character strings,  *)
(* so that lower(), strip(), split(), substring tests and slicing are      *)
(* computed as the code computes them.  Usernames and display names are    *)
(* only compared and concatenated and stay TLA+ strings.  Optional values  *)
(* are None (<<>>) or Some(x) (<<x>>).                                      *)
(***************************************************************************)
EXTENDS Integers, Sequences, FiniteSets, TLC

\* ---------------------------------------------------------------- bounds
MaxTime == 1
MaxUsers == 1
MaxConversations == 1
MaxMessages == 2

\* the fragments a text given to generate_response is made of, at most
MaxFragments == 3

\* the most words a text given to the title rule has
MaxWords == 5

\* ------------------------------------------------------- optional values
None == <<>>

Some(x) == <<x>>

\* ------------------------------------------------------------------ text
Range(s) == {s[i] : i \in 1..Len(s)}

UpperToLower ==
    [ A |-> "a", B |-> "b", C |-> "c", D |-> "d", E |-> "e", F |-> "f",
      G |-> "g", H |-> "h", I |-> "i", J |-> "j", K |-> "k", L |-> "l",
      M |-> "m", N |-> "n", O |-> "o", P |-> "p", Q |-> "q", R |-> "r",
      S |-> "s", T |-> "t", U |-> "u", V |-> "v", W |-> "w", X |-> "x",
      Y |-> "y", Z |-> "z" ]

\* str.lower()
Lower(s) ==
    [i \in 1..Len(s) |-> IF s[i] \in DOMAIN UpperToLower THEN UpperToLower[s[i]] ELSE s[i]]

IsSpace(ch) == ch \in {" ", "\t", "\n"}

RECURSIVE LStrip(_)
LStrip(s) ==
    IF s # <<>> /\ IsSpace(Head(s)) THEN LStrip(Tail(s)) ELSE s

RECURSIVE RStrip(_)
RStrip(s) ==
    IF s # <<>> /\ IsSpace(s[Len(s)]) THEN RStrip(SubSeq(s, 1, Len(s) - 1)) ELSE s

\* str.strip()
Strip(s) == RStrip(LStrip(s))

\* the Python operator `sub in s`
Contains(s, sub) ==
    \E i \in 1..(Len(s) - Len(sub) + 1) : SubSeq(s, i, i + Len(sub) - 1) = sub

ContainsAny(s, subs) == \E k \in 1..Len(subs) : Contains(s, subs[k])

\* str.endswith
EndsWith(s, suffix) ==
    /\ Len(s) >= Len(suffix)
    /\ SubSeq(s, Len(s) - Len(suffix) + 1, Len(s)) = suffix

\* the first word of s (s starts with a non-space character)
RECURSIVE FirstWord(_)
FirstWord(s) ==
    IF s = <<>> \/ IsSpace(Head(s)) THEN <<>> ELSE <<Head(s)>> \o FirstWord(Tail(s))

\* str.split(): the whitespace-separated words of s
RECURSIVE Split(_)
Split(s) ==
    LET t == LStrip(s)
        w == FirstWord(t)
    IN IF t = <<>> THEN <<>> ELSE <<w>> \o Split(SubSeq(t, Len(w) + 1, Len(t)))

\* " ".join(words)
RECURSIVE Join(_)
Join(words) ==
    IF words = <<>> THEN <<>>
    ELSE IF Len(words) = 1 THEN words[1]
    ELSE words[1] \o <<" ">> \o Join(Tail(words))

\* the slice s[:n]
Prefix(s, n) == SubSeq(s, 1, IF n < Len(s) THEN n ELSE Len(s))

\* ------------------------------------------- literals of the source

\* the greeting keywords, were an empty keyword among them
GreetingKeywords_with_empty ==
    << <<"h", "e", "l", "l", "o">>,
       <<"h", "i">>,
       <<"h", "e", "y">>,
       <<"g", "o", "o", "d", " ", "m", "o", "r", "n", "i", "n", "g">>,
       <<"g", "o", "o", "d", " ", "a", "f", "t", "e", "r", "n", "o", "o", "n">>,
      <<>> >>

GreetingKeywords ==
    << <<"h", "e", "l", "l", "o">>,
       <<"h", "i">>,
       <<"h", "e", "y">>,
       <<"g", "o", "o", "d", " ", "m", "o", "r", "n", "i", "n", "g">>,
       <<"g", "o", "o", "d", " ", "a", "f", "t", "e", "r", "n", "o", "o", "n">> >>

NegativeKeywords ==
    << <<"s", "a", "d">>,
       <<"u", "p", "s", "e", "t">>,
       <<"a", "n", "g", "r", "y">>,
       <<"f", "r", "u", "s", "t", "r", "a", "t", "e", "d">> >>

PositiveKeywords ==
    << <<"h", "a", "p", "p", "y">>,
       <<"e", "x", "c", "i", "t", "e", "d">>,
       <<"g", "r", "e", "a", "t">>,
       <<"a", "w", "e", "s", "o", "m", "e">>,
       <<"w", "o", "n", "d", "e", "r", "f", "u", "l">> >>

HelpKeywords ==
    << <<"h", "e", "l", "p">>,
       <<"a", "s", "s", "i", "s", "t">>,
       <<"s", "u", "p", "p", "o", "r", "t">> >>

ThanksKeywords ==
    << <<"t", "h", "a", "n", "k">>,
       <<"t", "h", "a", "n", "k", "s">> >>

GoodbyeKeywords ==
    << <<"b", "y", "e">>,
       <<"g", "o", "o", "d", "b", "y", "e">>,
       <<"s", "e", "e", " ", "y", "o", "u">>,
       <<"t", "a", "l", "k", " ", "l", "a", "t", "e", "r">> >>

GreetingResponses ==
    << <<"H", "e", "l", "l", "o", "!", " ", "H", "o", "w", " ", "c", "a", "n", " ", "I", " ", "h", "e", "l", "p", " ", "y", "o", "u", " ", "t", "o", "d", "a", "y", "?">>,
       <<"H", "i", " ", "t", "h", "e", "r", "e", "!", " ", "W", "h", "a", "t", "'", "s", " ", "o", "n", " ", "y", "o", "u", "r", " ", "m", "i", "n", "d", "?">>,
       <<"H", "e", "y", "!", " ", "G", "r", "e", "a", "t", " ", "t", "o", " ", "s", "e", "e", " ", "y", "o", "u", ".", " ", "W", "h", "a", "t", " ", "c", "a", "n", " ", "I", " ", "d", "o", " ", "f", "o", "r", " ", "y", "o", "u", "?">>,
       <<"H", "e", "l", "l", "o", "!", " ", "I", "'", "m", " ", "h", "e", "r", "e", " ", "t", "o", " ", "c", "h", "a", "t", ".", " ", "W", "h", "a", "t", " ", "w", "o", "u", "l", "d", " ", "y", "o", "u", " ", "l", "i", "k", "e", " ", "t", "o", " ", "t", "a", "l", "k", " ", "a", "b", "o", "u", "t", "?">> >>

GenericQuestionResponses ==
    << <<"T", "h", "a", "t", "'", "s", " ", "a", "n", " ", "i", "n", "t", "e", "r", "e", "s", "t", "i", "n", "g", " ", "q", "u", "e", "s", "t", "i", "o", "n", "!", " ", "L", "e", "t", " ", "m", "e", " ", "t", "h", "i", "n", "k", " ", "a", "b", "o", "u", "t", " ", "t", "h", "a", "t", ".", ".", ".">>,
       <<"H", "m", "m", ",", " ", "I", "'", "m", " ", "n", "o", "t", " ", "s", "u", "r", "e", " ", "a", "b", "o", "u", "t", " ", "t", "h", "a", "t", " ", "s", "p", "e", "c", "i", "f", "i", "c", " ", "q", "u", "e", "s", "t", "i", "o", "n", ",", " ", "b", "u", "t", " ", "I", "'", "d", " ", "l", "o", "v", "e", " ", "t", "o", " ", "h", "e", "l", "p", " ", "y", "o", "u", " ", "e", "x", "p", "l", "o", "r", "e", " ", "i", "t", " ", "f", "u", "r", "t", "h", "e", "r", ".">>,
       <<"G", "r", "e", "a", "t", " ", "q", "u", "e", "s", "t", "i", "o", "n", "!", " ", "W", "h", "i", "l", "e", " ", "I", " ", "m", "i", "g", "h", "t", " ", "n", "o", "t", " ", "h", "a", "v", "e", " ", "t", "h", "e", " ", "e", "x", "a", "c", "t", " ", "a", "n", "s", "w", "e", "r", ",", " ", "I", "'", "m", " ", "h", "a", "p", "p", "y", " ", "t", "o", " ", "d", "i", "s", "c", "u", "s", "s", " ", "i", "t", " ", "w", "i", "t", "h", " ", "y", "o", "u", ".">> >>

GoodbyeResponses ==
    << <<"G", "o", "o", "d", "b", "y", "e", "!", " ", "I", "t", " ", "w", "a", "s", " ", "g", "r", "e", "a", "t", " ", "c", "h", "a", "t", "t", "i", "n", "g", " ", "w", "i", "t", "h", " ", "y", "o", "u", ".", " ", "H", "a", "v", "e", " ", "a", " ", "w", "o", "n", "d", "e", "r", "f", "u", "l", " ", "d", "a", "y", "!">>,
       <<"S", "e", "e", " ", "y", "o", "u", " ", "l", "a", "t", "e", "r", "!", " ", "F", "e", "e", "l", " ", "f", "r", "e", "e", " ", "t", "o", " ", "c", "o", "m", "e", " ", "b", "a", "c", "k", " ", "a", "n", "y", "t", "i", "m", "e", " ", "y", "o", "u", " ", "w", "a", "n", "t", " ", "t", "o", " ", "c", "h", "a", "t", ".">>,
       <<"T", "a", "k", "e", " ", "c", "a", "r", "e", "!", " ", "I", " ", "e", "n", "j", "o", "y", "e", "d", " ", "o", "u", "r", " ", "c", "o", "n", "v", "e", "r", "s", "a", "t", "i", "o", "n", ".", " ", "C", "o", "m", "e", " ", "b", "a", "c", "k", " ", "s", "o", "o", "n", "!">> >>

default_responses ==
    << <<"T", "h", "a", "t", "'", "s", " ", "i", "n", "t", "e", "r", "e", "s", "t", "i", "n", "g", "!", " ", "T", "e", "l", "l", " ", "m", "e", " ", "m", "o", "r", "e", " ", "a", "b", "o", "u", "t", " ", "t", "h", "a", "t", ".">>,
       <<"I", " ", "s", "e", "e", " ", "w", "h", "a", "t", " ", "y", "o", "u", " ", "m", "e", "a", "n", ".", " ", "W", "h", "a", "t", " ", "m", "a", "d", "e", " ", "y", "o", "u", " ", "t", "h", "i", "n", "k", " ", "a", "b", "o", "u", "t", " ", "t", "h", "a", "t", "?">>,
       <<"T", "h", "a", "n", "k", "s", " ", "f", "o", "r", " ", "s", "h", "a", "r", "i", "n", "g", " ", "t", "h", "a", "t", " ", "w", "i", "t", "h", " ", "m", "e", "!", " ", "H", "o", "w", " ", "d", "o", " ", "y", "o", "u", " ", "f", "e", "e", "l", " ", "a", "b", "o", "u", "t", " ", "i", "t", "?">>,
       <<"T", "h", "a", "t", " ", "s", "o", "u", "n", "d", "s", " ", "i", "n", "t", "r", "i", "g", "u", "i", "n", "g", ".", " ", "C", "a", "n", " ", "y", "o", "u", " ", "e", "l", "a", "b", "o", "r", "a", "t", "e", " ", "a", " ", "b", "i", "t", " ", "m", "o", "r", "e", "?">>,
       <<"I", " ", "a", "p", "p", "r", "e", "c", "i", "a", "t", "e", " ", "y", "o", "u", " ", "t", "e", "l", "l", "i", "n", "g", " ", "m", "e", " ", "t", "h", "a", "t", ".", " ", "W", "h", "a", "t", "'", "s", " ", "y", "o", "u", "r", " ", "p", "e", "r", "s", "p", "e", "c", "t", "i", "v", "e", " ", "o", "n", " ", "i", "t", "?">>,
       <<"I", "n", "t", "e", "r", "e", "s", "t", "i", "n", "g", " ", "p", "o", "i", "n", "t", "!", " ", "I", "'", "d", " ", "l", "o", "v", "e", " ", "t", "o", " ", "h", "e", "a", "r", " ", "m", "o", "r", "e", " ", "o", "f", " ", "y", "o", "u", "r", " ", "t", "h", "o", "u", "g", "h", "t", "s", " ", "o", "n", " ", "t", "h", "i", "s", ".">> >>

HowAreYouKeyword ==
    <<"h", "o", "w", " ", "a", "r", "e", " ", "y", "o", "u">>

WhatKeyword ==
    <<"w", "h", "a", "t">>

NameKeyword ==
    <<"n", "a", "m", "e">>

WeatherKeyword ==
    <<"w", "e", "a", "t", "h", "e", "r">>

TimeKeyword ==
    <<"t", "i", "m", "e">>

HowAreYouResponse ==
    <<"I", "'", "m", " ", "d", "o", "i", "n", "g", " ", "g", "r", "e", "a", "t", ",", " ", "t", "h", "a", "n", "k", " ", "y", "o", "u", " ", "f", "o", "r", " ", "a", "s", "k", "i", "n", "g", "!", " ", "H", "o", "w", " ", "a", "r", "e", " ", "y", "o", "u", " ", "d", "o", "i", "n", "g", " ", "t", "o", "d", "a", "y", "?">>

NameResponse ==
    <<"I", "'", "m", " ", "y", "o", "u", "r", " ", "f", "r", "i", "e", "n", "d", "l", "y", " ", "c", "h", "a", "t", "b", "o", "t", " ", "a", "s", "s", "i", "s", "t", "a", "n", "t", "!", " ", "Y", "o", "u", " ", "c", "a", "n", " ", "c", "a", "l", "l", " ", "m", "e", " ", "C", "h", "a", "t", "B", "o", "t", ".", " ", "W", "h", "a", "t", "'", "s", " ", "y", "o", "u", "r", " ", "n", "a", "m", "e", "?">>

WeatherResponse ==
    <<"I", " ", "d", "o", "n", "'", "t", " ", "h", "a", "v", "e", " ", "a", "c", "c", "e", "s", "s", " ", "t", "o", " ", "r", "e", "a", "l", "-", "t", "i", "m", "e", " ", "w", "e", "a", "t", "h", "e", "r", " ", "d", "a", "t", "a", ",", " ", "b", "u", "t", " ", "I", " ", "h", "o", "p", "e", " ", "i", "t", "'", "s", " ", "n", "i", "c", "e", " ", "w", "h", "e", "r", "e", " ", "y", "o", "u", " ", "a", "r", "e", "!", " ", "I", "s", " ", "t", "h", "e", "r", "e", " ", "a", "n", "y", "t", "h", "i", "n", "g", " ", "e", "l", "s", "e", " ", "I", " ", "c", "a", "n", " ", "h", "e", "l", "p", " ", "y", "o", "u", " ", "w", "i", "t", "h", "?">>

TimeResponse ==
    <<"I", " ", "d", "o", "n", "'", "t", " ", "h", "a", "v", "e", " ", "a", "c", "c", "e", "s", "s", " ", "t", "o", " ", "t", "h", "e", " ", "c", "u", "r", "r", "e", "n", "t", " ", "t", "i", "m", "e", ",", " ", "b", "u", "t", " ", "y", "o", "u", " ", "c", "a", "n", " ", "c", "h", "e", "c", "k", " ", "y", "o", "u", "r", " ", "d", "e", "v", "i", "c", "e", "'", "s", " ", "c", "l", "o", "c", "k", ".", " ", "I", "s", " ", "t", "h", "e", "r", "e", " ", "s", "o", "m", "e", "t", "h", "i", "n", "g", " ", "e", "l", "s", "e", " ", "I", " ", "c", "a", "n", " ", "a", "s", "s", "i", "s", "t", " ", "y", "o", "u", " ", "w", "i", "t", "h", "?">>

NegativeResponse ==
    <<"I", "'", "m", " ", "s", "o", "r", "r", "y", " ", "t", "o", " ", "h", "e", "a", "r", " ", "y", "o", "u", "'", "r", "e", " ", "f", "e", "e", "l", "i", "n", "g", " ", "t", "h", "a", "t", " ", "w", "a", "y", ".", " ", "S", "o", "m", "e", "t", "i", "m", "e", "s", " ", "i", "t", " ", "h", "e", "l", "p", "s", " ", "t", "o", " ", "t", "a", "l", "k", " ", "a", "b", "o", "u", "t", " ", "w", "h", "a", "t", "'", "s", " ", "b", "o", "t", "h", "e", "r", "i", "n", "g", " ", "y", "o", "u", ".", " ", "I", "'", "m", " ", "h", "e", "r", "e", " ", "t", "o", " ", "l", "i", "s", "t", "e", "n", ".">>

PositiveResponse ==
    <<"T", "h", "a", "t", "'", "s", " ", "w", "o", "n", "d", "e", "r", "f", "u", "l", " ", "t", "o", " ", "h", "e", "a", "r", "!", " ", "I", "'", "m", " ", "g", "l", "a", "d", " ", "y", "o", "u", "'", "r", "e", " ", "f", "e", "e", "l", "i", "n", "g", " ", "p", "o", "s", "i", "t", "i", "v", "e", ".", " ", "W", "h", "a", "t", "'", "s", " ", "m", "a", "k", "i", "n", "g", " ", "y", "o", "u", " ", "s", "o", " ", "h", "a", "p", "p", "y", "?">>

HelpResponse ==
    <<"I", "'", "m", " ", "h", "e", "r", "e", " ", "t", "o", " ", "h", "e", "l", "p", "!", " ", "I", " ", "c", "a", "n", " ", "c", "h", "a", "t", " ", "w", "i", "t", "h", " ", "y", "o", "u", " ", "a", "b", "o", "u", "t", " ", "v", "a", "r", "i", "o", "u", "s", " ", "t", "o", "p", "i", "c", "s", ",", " ", "a", "n", "s", "w", "e", "r", " ", "q", "u", "e", "s", "t", "i", "o", "n", "s", ",", " ", "o", "r", " ", "j", "u", "s", "t", " ", "h", "a", "v", "e", " ", "a", " ", "f", "r", "i", "e", "n", "d", "l", "y", " ", "c", "o", "n", "v", "e", "r", "s", "a", "t", "i", "o", "n", ".", " ", "W", "h", "a", "t", " ", "w", "o", "u", "l", "d", " ", "y", "o", "u", " ", "l", "i", "k", "e", " ", "t", "o", " ", "t", "a", "l", "k", " ", "a", "b", "o", "u", "t", "?">>

ThanksResponse ==
    <<"Y", "o", "u", "'", "r", "e", " ", "v", "e", "r", "y", " ", "w", "e", "l", "c", "o", "m", "e", "!", " ", "I", "'", "m", " ", "h", "a", "p", "p", "y", " ", "I", " ", "c", "o", "u", "l", "d", " ", "h", "e", "l", "p", ".", " ", "I", "s", " ", "t", "h", "e", "r", "e", " ", "a", "n", "y", "t", "h", "i", "n", "g", " ", "e", "l", "s", "e", " ", "y", "o", "u", "'", "d", " ", "l", "i", "k", "e", " ", "t", "o", " ", "c", "h", "a", "t", " ", "a", "b", "o", "u", "t", "?">>

ErrorResponse ==
    <<"I", "'", "m", " ", "s", "o", "r", "r", "y", ",", " ", "I", " ", "e", "n", "c", "o", "u", "n", "t", "e", "r", "e", "d", " ", "a", "n", " ", "e", "r", "r", "o", "r", " ", "w", "h", "i", "l", "e", " ", "p", "r", "o", "c", "e", "s", "s", "i", "n", "g", " ", "y", "o", "u", "r", " ", "m", "e", "s", "s", "a", "g", "e", ".", " ", "P", "l", "e", "a", "s", "e", " ", "t", "r", "y", " ", "a", "g", "a", "i", "n", ".">>

WelcomeContent ==
    <<"H", "e", "l", "l", "o", "!", " ", "I", "'", "m", " ", "y", "o", "u", "r", " ", "A", "I", " ", "c", "h", "a", "t", "b", "o", "t", " ", "a", "s", "s", "i", "s", "t", "a", "n", "t", ".", " ", "I", "'", "m", " ", "h", "e", "r", "e", " ", "t", "o", " ", "c", "h", "a", "t", " ", "w", "i", "t", "h", " ", "y", "o", "u", " ", "a", "b", "o", "u", "t", " ", "a", "n", "y", "t", "h", "i", "n", "g", " ", "y", "o", "u", "'", "d", " ", "l", "i", "k", "e", " ", "t", "o", " ", "d", "i", "s", "c", "u", "s", "s", ".", " ", "H", "o", "w", " ", "c", "a", "n", " ", "I", " ", "h", "e", "l", "p", " ", "y", "o", "u", " ", "t", "o", "d", "a", "y", "?">>

NewChatTitle ==
    <<"N", "e", "w", " ", "C", "h", "a", "t">>

DefaultTitle ==
    <<"N", "e", "w", " ", "C", "o", "n", "v", "e", "r", "s", "a", "t", "i", "o", "n">>

Ellipsis ==
    <<".", ".", ".">>

\* ------------------------------------------------- response generator
\* generate_response, were it to test for a question before a greeting
generate_response_question_first(user_message) ==
    LET user_message_lower == Strip(Lower(user_message))
    IN IF EndsWith(user_message_lower, <<"?">>)
         THEN IF Contains(user_message_lower, HowAreYouKeyword) THEN {HowAreYouResponse}
              ELSE IF Contains(user_message_lower, WhatKeyword)
                      /\ Contains(user_message_lower, NameKeyword) THEN {NameResponse}
              ELSE IF Contains(user_message_lower, WeatherKeyword) THEN {WeatherResponse}
              ELSE IF Contains(user_message_lower, TimeKeyword) THEN {TimeResponse}
              ELSE Range(GenericQuestionResponses)
       ELSE IF ContainsAny(user_message_lower, GreetingKeywords)
         THEN Range(GreetingResponses)
       ELSE IF ContainsAny(user_message_lower, NegativeKeywords) THEN {NegativeResponse}
       ELSE IF ContainsAny(user_message_lower, PositiveKeywords) THEN {PositiveResponse}
       ELSE IF ContainsAny(user_message_lower, HelpKeywords) THEN {HelpResponse}
       ELSE IF ContainsAny(user_message_lower, ThanksKeywords) THEN {ThanksResponse}
       ELSE IF ContainsAny(user_message_lower, GoodbyeKeywords) THEN Range(GoodbyeResponses)
       ELSE Range(default_responses)

\* generate_response, were it to test for a help request before the emotions
generate_response_help_first(user_message) ==
    LET user_message_lower == Strip(Lower(user_message))
    IN IF ContainsAny(user_message_lower, GreetingKeywords)
         THEN Range(GreetingResponses)
       ELSE IF EndsWith(user_message_lower, <<"?">>)
         THEN IF Contains(user_message_lower, HowAreYouKeyword) THEN {HowAreYouResponse}
              ELSE IF Contains(user_message_lower, WhatKeyword)
                      /\ Contains(user_message_lower, NameKeyword) THEN {NameResponse}
              ELSE IF Contains(user_message_lower, WeatherKeyword) THEN {WeatherResponse}
              ELSE IF Contains(user_message_lower, TimeKeyword) THEN {TimeResponse}
              ELSE Range(GenericQuestionResponses)
       ELSE IF ContainsAny(user_message_lower, HelpKeywords) THEN {HelpResponse}
       ELSE IF ContainsAny(user_message_lower, NegativeKeywords) THEN {NegativeResponse}
       ELSE IF ContainsAny(user_message_lower, PositiveKeywords) THEN {PositiveResponse}
       ELSE IF ContainsAny(user_message_lower, ThanksKeywords) THEN {ThanksResponse}
       ELSE IF ContainsAny(user_message_lower, GoodbyeKeywords) THEN Range(GoodbyeResponses)
       ELSE Range(default_responses)

\* ChatbotService.generate_response: the set of replies random.choice can
\* return for user_message.
\* generate_response, were the fallback always the first of its replies
generate_response_first_default(user_message) ==
    LET user_message_lower == Strip(Lower(user_message))
    IN IF ContainsAny(user_message_lower, GreetingKeywords)
         THEN Range(GreetingResponses)
       ELSE IF EndsWith(user_message_lower, <<"?">>)
         THEN IF Contains(user_message_lower, HowAreYouKeyword) THEN {HowAreYouResponse}
              ELSE IF Contains(user_message_lower, WhatKeyword)
                      /\ Contains(user_message_lower, NameKeyword) THEN {NameResponse}
              ELSE IF Contains(user_message_lower, WeatherKeyword) THEN {WeatherResponse}
              ELSE IF Contains(user_message_lower, TimeKeyword) THEN {TimeResponse}
              ELSE Range(GenericQuestionResponses)
       ELSE IF ContainsAny(user_message_lower, NegativeKeywords) THEN {NegativeResponse}
       ELSE IF ContainsAny(user_message_lower, PositiveKeywords) THEN {PositiveResponse}
       ELSE IF ContainsAny(user_message_lower, HelpKeywords) THEN {HelpResponse}
       ELSE IF ContainsAny(user_message_lower, ThanksKeywords) THEN {ThanksResponse}
       ELSE IF ContainsAny(user_message_lower, GoodbyeKeywords) THEN Range(GoodbyeResponses)
       ELSE {default_responses[1]}

\* generate_response, were the weather rule the first of the question rules
generate_response_weather_first(user_message) ==
    LET user_message_lower == Strip(Lower(user_message))
    IN IF ContainsAny(user_message_lower, GreetingKeywords)
         THEN Range(GreetingResponses)
       ELSE IF EndsWith(user_message_lower, <<"?">>)
         THEN IF Contains(user_message_lower, WeatherKeyword) THEN {WeatherResponse}
              ELSE IF Contains(user_message_lower, HowAreYouKeyword) THEN {HowAreYouResponse}
              ELSE IF Contains(user_message_lower, WhatKeyword)
                      /\ Contains(user_message_lower, NameKeyword) THEN {NameResponse}
              ELSE IF Contains(user_message_lower, TimeKeyword) THEN {TimeResponse}
              ELSE Range(GenericQuestionResponses)
       ELSE IF ContainsAny(user_message_lower, NegativeKeywords) THEN {NegativeResponse}
       ELSE IF ContainsAny(user_message_lower, PositiveKeywords) THEN {PositiveResponse}
       ELSE IF ContainsAny(user_message_lower, HelpKeywords) THEN {HelpResponse}
       ELSE IF ContainsAny(user_message_lower, ThanksKeywords) THEN {ThanksResponse}
       ELSE IF ContainsAny(user_message_lower, GoodbyeKeywords) THEN Range(GoodbyeResponses)
       ELSE Range(default_responses)

generate_response(user_message) ==
    LET user_message_lower == Strip(Lower(user_message))
    IN IF ContainsAny(user_message_lower, GreetingKeywords)
         THEN Range(GreetingResponses)
       ELSE IF EndsWith(user_message_lower, <<"?">>)
         THEN IF Contains(user_message_lower, HowAreYouKeyword) THEN {HowAreYouResponse}
              ELSE IF Contains(user_message_lower, WhatKeyword)
                      /\ Contains(user_message_lower, NameKeyword) THEN {NameResponse}
              ELSE IF Contains(user_message_lower, WeatherKeyword) THEN {WeatherResponse}
              ELSE IF Contains(user_message_lower, TimeKeyword) THEN {TimeResponse}
              ELSE Range(GenericQuestionResponses)
       ELSE IF ContainsAny(user_message_lower, NegativeKeywords) THEN {NegativeResponse}
       ELSE IF ContainsAny(user_message_lower, PositiveKeywords) THEN {PositiveResponse}
       ELSE IF ContainsAny(user_message_lower, HelpKeywords) THEN {HelpResponse}
       ELSE IF ContainsAny(user_message_lower, ThanksKeywords) THEN {ThanksResponse}
       ELSE IF ContainsAny(user_message_lower, GoodbyeKeywords) THEN Range(GoodbyeResponses)
       ELSE Range(default_responses)


\* ------------------------------------------------------------ data model
USER == "user"

BOT == "bot"

model_name == "simple-chatbot-v1.0"

\* models.User: created_at from default_factory, is_active defaults to True
User(id, username, display_name, created_at) ==
    [id |-> id, username |-> username, display_name |-> display_name,
     created_at |-> created_at, is_active |-> TRUE]

\* models.Conversation: created_at and updated_at are two default_factory reads
Conversation(id, title, user_id, created_at, updated_at) ==
    [id |-> id, title |-> title, user_id |-> user_id, created_at |-> created_at,
     updated_at |-> updated_at, is_active |-> TRUE]

\* models.Message
Message(id, content, message_type, conversation_id, created_at, response_time_ms, model_used) ==
    [id |-> id, content |-> content, message_type |-> message_type,
     conversation_id |-> conversation_id, created_at |-> created_at,
     response_time_ms |-> response_time_ms, model_used |-> model_used]

\* datetime.isoformat(): the text of a timestamp
isoformat(t) == ToString(t)

\* models.MessageResponse of a stored message
MessageResponse(msg) ==
    [id |-> msg.id, content |-> msg.content, message_type |-> msg.message_type,
     conversation_id |-> msg.conversation_id, created_at |-> isoformat(msg.created_at),
     response_time_ms |-> msg.response_time_ms, model_used |-> msg.model_used]

\* models.ConversationWithMessages of a stored conversation and a message list
ConversationWithMessages(conversation, msgs) ==
    [id |-> conversation.id, title |-> conversation.title, user_id |-> conversation.user_id,
     created_at |-> isoformat(conversation.created_at),
     updated_at |-> isoformat(conversation.updated_at),
     is_active |-> conversation.is_active,
     messages |-> [i \in 1..Len(msgs) |-> MessageResponse(msgs[i])]]

\* conversations.user_id REFERENCES users.id
UserExists(db, user_id) == user_id \in 1..Len(db.users)

\* messages.conversation_id REFERENCES conversations.id
ConversationExists(db, conversation_id) == conversation_id \in 1..Len(db.conversations)

\* Python truthiness of an Optional[int] value
TruthyInt(opt) == opt # None /\ opt[1] # 0

\* Python truthiness of an optional text
TruthyText(opt) == opt # None /\ opt[1] # <<>>

\* The orderings `ORDER BY key ASC` can return for the rows `rows`, keys[i]
\* being the key of rows[i]: every arrangement of the rows in which the keys
\* ascend; rows with equal keys come in an order the statement does not fix.
Orderings(rows, keys) ==
    LET n == Len(rows)
        perms == {p \in [1..n -> 1..n] : \A i, j \in 1..n : i # j => p[i] # p[j]}
    IN {[i \in 1..n |-> rows[p[i]]] : p \in
          {q \in perms : \A i, j \in 1..n : i < j => keys[q[i]] <= keys[q[j]]}}

\* ---------------------------------------------------- persistence service
\* Every operation takes the store db = [users, conversations, messages],
\* the values its clock reads return, and the point at which the storage
\* layer faults: "none", "fail" (before the first commit is durable) or
\* "late" (after the first commit is durable), and yields the new store and
\* the value returned to the caller.
Faults == {"none", "fail", "late"}

\* get_or_create_user, were it to store the display_name it is given on a hit
get_or_create_user_overwrite(db, username, display_name, t, fault) ==
    LET found == {i \in 1..Len(db.users) : db.users[i].username = username}
        given == IF display_name # None /\ display_name[1] # "" THEN display_name[1] ELSE username
        user == User(Len(db.users) + 1, username, given, t)
        inserted == [db EXCEPT !.users = Append(@, user)]
        hit == CHOOSE i \in found : TRUE
        updated == [db EXCEPT !.users[hit].display_name = given]
    IN IF fault = "fail" THEN [db |-> db, ret |-> None]
       ELSE IF found # {} THEN [db |-> updated, ret |-> Some(updated.users[hit])]
       ELSE IF fault = "late" THEN [db |-> inserted, ret |-> None]
       ELSE [db |-> inserted, ret |-> Some(user)]

get_or_create_user(db, username, display_name, t, fault) ==
    LET found == {i \in 1..Len(db.users) : db.users[i].username = username}
        user == User(Len(db.users) + 1, username,
                     IF display_name # None /\ display_name[1] # "" THEN display_name[1] ELSE username, t)
        inserted == [db EXCEPT !.users = Append(@, user)]
    IN IF fault = "fail" THEN [db |-> db, ret |-> None]
       ELSE IF found # {} THEN [db |-> db, ret |-> Some(db.users[CHOOSE i \in found : TRUE])]
       ELSE IF fault = "late" THEN [db |-> inserted, ret |-> None]
       ELSE [db |-> inserted, ret |-> Some(user)]

\* create_conversation over a store that does not enforce the foreign key
create_conversation_unchecked(db, user_id, title, t1, t2, fault) ==
    LET conversation == Conversation(Len(db.conversations) + 1,
                                     IF TruthyText(title) THEN title[1] ELSE DefaultTitle,
                                     user_id, t1, t2)
        inserted == [db EXCEPT !.conversations = Append(@, conversation)]
    IN IF fault = "fail" THEN [db |-> db, ret |-> None]
       ELSE IF fault = "late" THEN [db |-> inserted, ret |-> None]
       ELSE [db |-> inserted, ret |-> Some(conversation)]

create_conversation(db, user_id, title, t1, t2, fault) ==
    LET conversation == Conversation(Len(db.conversations) + 1,
                                     IF TruthyText(title) THEN title[1] ELSE DefaultTitle,
                                     user_id, t1, t2)
        inserted == [db EXCEPT !.conversations = Append(@, conversation)]
    IN IF fault = "fail" \/ ~UserExists(db, user_id) THEN [db |-> db, ret |-> None]
       ELSE IF fault = "late" THEN [db |-> inserted, ret |-> None]
       ELSE [db |-> inserted, ret |-> Some(conversation)]

get_conversation(db, conversation_id, fault) ==
    IF fault # "fail" /\ conversation_id \in 1..Len(db.conversations)
    THEN Some(db.conversations[conversation_id])
    ELSE None

\* the set of lists get_user_conversations can return
get_user_conversations(db, user_id, active_only, fault) ==
    LET Match(c) == c.user_id = user_id /\ (active_only => c.is_active)
        rows == SelectSeq(db.conversations, Match)
    IN IF fault = "fail" THEN {<<>>}
       ELSE Orderings(rows, [i \in 1..Len(rows) |-> 0 - rows[i].updated_at])

\* create_message, were it to touch updated_at with the conversation's created_at
create_message_stale(db, content, message_type, conversation_id, response_time_ms, model_used, t1, t2, fault) ==
    LET message == Message(Len(db.messages) + 1, content, message_type, conversation_id,
                           t1, response_time_ms, model_used)
        inserted == [db EXCEPT !.messages = Append(@, message)]
        touched == [inserted EXCEPT !.conversations[conversation_id].updated_at =
                                        db.conversations[conversation_id].created_at]
    IN IF fault = "fail" \/ ~ConversationExists(db, conversation_id) THEN [db |-> db, ret |-> None]
       ELSE IF fault = "late" THEN [db |-> inserted, ret |-> None]
       ELSE [db |-> touched, ret |-> Some(message)]

\* create_message over a store that does not enforce the foreign key
create_message_unchecked(db, content, message_type, conversation_id, response_time_ms, model_used, t1, t2, fault) ==
    LET message == Message(Len(db.messages) + 1, content, message_type, conversation_id,
                           t1, response_time_ms, model_used)
        inserted == [db EXCEPT !.messages = Append(@, message)]
        touched == IF ConversationExists(db, conversation_id)
                   THEN [inserted EXCEPT !.conversations[conversation_id].updated_at = t2]
                   ELSE inserted
    IN IF fault = "fail" THEN [db |-> db, ret |-> None]
       ELSE IF fault = "late" THEN [db |-> inserted, ret |-> None]
       ELSE [db |-> touched, ret |-> Some(message)]

\* create_message, were it to refuse a soft-deleted conversation
create_message_active_only(db, content, message_type, conversation_id, response_time_ms, model_used, t1, t2, fault) ==
    LET message == Message(Len(db.messages) + 1, content, message_type, conversation_id,
                           t1, response_time_ms, model_used)
        inserted == [db EXCEPT !.messages = Append(@, message)]
        touched == [inserted EXCEPT !.conversations[conversation_id].updated_at = t2]
    IN IF fault = "fail" \/ ~ConversationExists(db, conversation_id) THEN [db |-> db, ret |-> None]
       ELSE IF ~db.conversations[conversation_id].is_active THEN [db |-> db, ret |-> None]
       ELSE IF fault = "late" THEN [db |-> inserted, ret |-> None]
       ELSE [db |-> touched, ret |-> Some(message)]

\* create_message, were it to stamp every message with a latency of 0
create_message_stamped(db, content, message_type, conversation_id, response_time_ms, model_used, t1, t2, fault) ==
    LET message == Message(Len(db.messages) + 1, content, message_type, conversation_id,
                           t1, Some(0), model_used)
        inserted == [db EXCEPT !.messages = Append(@, message)]
        touched == [inserted EXCEPT !.conversations[conversation_id].updated_at = t2]
    IN IF fault = "fail" \/ ~ConversationExists(db, conversation_id) THEN [db |-> db, ret |-> None]
       ELSE IF fault = "late" THEN [db |-> inserted, ret |-> None]
       ELSE [db |-> touched, ret |-> Some(message)]

\* create_message, were it to store the text without its outer whitespace
create_message_stripped(db, content, message_type, conversation_id, response_time_ms, model_used, t1, t2, fault) ==
    LET message == Message(Len(db.messages) + 1, Strip(content), message_type, conversation_id,
                           t1, response_time_ms, model_used)
        inserted == [db EXCEPT !.messages = Append(@, message)]
        touched == [inserted EXCEPT !.conversations[conversation_id].updated_at = t2]
    IN IF fault = "fail" \/ ~ConversationExists(db, conversation_id) THEN [db |-> db, ret |-> None]
       ELSE IF fault = "late" THEN [db |-> inserted, ret |-> None]
       ELSE [db |-> touched, ret |-> Some(message)]

create_message(db, content, message_type, conversation_id, response_time_ms, model_used, t1, t2, fault) ==
    LET message == Message(Len(db.messages) + 1, content, message_type, conversation_id,
                           t1, response_time_ms, model_used)
        inserted == [db EXCEPT !.messages = Append(@, message)]
        touched == [inserted EXCEPT !.conversations[conversation_id].updated_at = t2]
    IN IF fault = "fail" \/ ~ConversationExists(db, conversation_id) THEN [db |-> db, ret |-> None]
       ELSE IF fault = "late" THEN [db |-> inserted, ret |-> None]
       ELSE [db |-> touched, ret |-> Some(message)]

\* the set of lists get_conversation_messages can return
get_conversation_messages(db, conversation_id, limit, fault) ==
    LET Match(m) == m.conversation_id = conversation_id
        rows == SelectSeq(db.messages, Match)
    IN IF fault = "fail" THEN {<<>>}
       ELSE {IF TruthyInt(limit) THEN Prefix(l, limit[1]) ELSE l :
                l \in Orderings(rows, [i \in 1..Len(rows) |-> rows[i].created_at])}

\* the set of values get_conversation_with_messages can return: fault is the
\* fault of its own session, fault_messages the fault of the nested
\* get_conversation_messages call, which has its own session and handler
\* get_conversation_with_messages, were it to skip soft-deleted conversations
get_conversation_with_messages_active_only(db, conversation_id, fault, fault_messages) ==
    IF fault = "fail" \/ ~ConversationExists(db, conversation_id)
       \/ ~db.conversations[conversation_id].is_active
    THEN {None}
    ELSE {Some(ConversationWithMessages(db.conversations[conversation_id], l)) :
             l \in get_conversation_messages(db, conversation_id, None, fault_messages)}

get_conversation_with_messages(db, conversation_id, fault, fault_messages) ==
    IF fault = "fail" \/ ~ConversationExists(db, conversation_id)
    THEN {None}
    ELSE {Some(ConversationWithMessages(db.conversations[conversation_id], l)) :
             l \in get_conversation_messages(db, conversation_id, None, fault_messages)}

\* update_conversation_title, were it to reactivate the conversation it renames
update_conversation_title_reactivate(db, conversation_id, title, t, fault) ==
    LET updated == [db EXCEPT !.conversations[conversation_id].title = title,
                              !.conversations[conversation_id].updated_at = t,
                              !.conversations[conversation_id].is_active = TRUE]
    IN IF fault = "fail" \/ ~ConversationExists(db, conversation_id) THEN [db |-> db, ret |-> None]
       ELSE IF fault = "late" THEN [db |-> updated, ret |-> None]
       ELSE [db |-> updated, ret |-> Some(updated.conversations[conversation_id])]

\* update_conversation_title, were it to leave updated_at alone
update_conversation_title_untouched(db, conversation_id, title, t, fault) ==
    LET updated == [db EXCEPT !.conversations[conversation_id].title = title]
    IN IF fault = "fail" \/ ~ConversationExists(db, conversation_id) THEN [db |-> db, ret |-> None]
       ELSE IF fault = "late" THEN [db |-> updated, ret |-> None]
       ELSE [db |-> updated, ret |-> Some(updated.conversations[conversation_id])]

update_conversation_title(db, conversation_id, title, t, fault) ==
    LET updated == [db EXCEPT !.conversations[conversation_id].title = title,
                              !.conversations[conversation_id].updated_at = t]
    IN IF fault = "fail" \/ ~ConversationExists(db, conversation_id) THEN [db |-> db, ret |-> None]
       ELSE IF fault = "late" THEN [db |-> updated, ret |-> None]
       ELSE [db |-> updated, ret |-> Some(updated.conversations[conversation_id])]

\* delete_conversation, were it to touch updated_at and leave is_active alone
delete_conversation_touch_only(db, conversation_id, t, fault) ==
    LET updated == [db EXCEPT !.conversations[conversation_id].updated_at = t]
    IN IF fault = "fail" \/ ~ConversationExists(db, conversation_id) THEN [db |-> db, ret |-> FALSE]
       ELSE [db |-> updated, ret |-> TRUE]

\* delete_conversation, were it to remove the messages of the conversation
delete_conversation_cascade(db, conversation_id, t, fault) ==
    LET Kept(m) == m.conversation_id # conversation_id
        updated == [db EXCEPT !.conversations[conversation_id].is_active = FALSE,
                              !.conversations[conversation_id].updated_at = t,
                              !.messages = SelectSeq(@, Kept)]
    IN IF fault = "fail" \/ ~ConversationExists(db, conversation_id) THEN [db |-> db, ret |-> FALSE]
       ELSE [db |-> updated, ret |-> TRUE]

\* delete_conversation, were it to blank the title of the row as well
delete_conversation_retitle(db, conversation_id, t, fault) ==
    LET updated == [db EXCEPT !.conversations[conversation_id].is_active = FALSE,
                              !.conversations[conversation_id].title = <<>>,
                              !.conversations[conversation_id].updated_at = t]
    IN IF fault = "fail" \/ ~ConversationExists(db, conversation_id) THEN [db |-> db, ret |-> FALSE]
       ELSE [db |-> updated, ret |-> TRUE]

delete_conversation(db, conversation_id, t, fault) ==
    LET updated == [db EXCEPT !.conversations[conversation_id].is_active = FALSE,
                              !.conversations[conversation_id].updated_at = t]
    IN IF fault = "fail" \/ ~ConversationExists(db, conversation_id) THEN [db |-> db, ret |-> FALSE]
       ELSE [db |-> updated, ret |-> TRUE]

\* ------------------------------------------------------- chatbot service
\* create_bot_message over a store that does not enforce the foreign key
create_bot_message_unchecked(db, content, conversation_id, response_time_ms, t, fault) ==
    LET message == Message(Len(db.messages) + 1, content, BOT, conversation_id,
                           t, response_time_ms, Some(model_name))
        inserted == [db EXCEPT !.messages = Append(@, message)]
    IN IF fault = "fail" THEN [db |-> db, ret |-> None]
       ELSE IF fault = "late" THEN [db |-> inserted, ret |-> None]
       ELSE [db |-> inserted, ret |-> Some(message)]

create_bot_message(db, content, conversation_id, response_time_ms, t, fault) ==
    LET message == Message(Len(db.messages) + 1, content, BOT, conversation_id,
                           t, response_time_ms, Some(model_name))
        inserted == [db EXCEPT !.messages = Append(@, message)]
    IN IF fault = "fail" \/ ~ConversationExists(db, conversation_id) THEN [db |-> db, ret |-> None]
       ELSE IF fault = "late" THEN [db |-> inserted, ret |-> None]
       ELSE [db |-> inserted, ret |-> Some(message)]

\* process_user_message, were it to save the reply without the latency, as its
\* error branch does
process_user_message_untimed(db, user_message, conversation_id, reply, response_time_ms, t, fault) ==
    create_bot_message(db, reply, conversation_id, None, t, fault)

\* reply is the generator's draw, response_time_ms the measured latency
process_user_message(db, user_message, conversation_id, reply, response_time_ms, t, fault) ==
    create_bot_message(db, reply, conversation_id, Some(response_time_ms), t, fault)


\* ------------------------------------- service methods, statement by statement
\* get_or_create_user: the select, in the caller's own session
select_user(db, username) ==
    LET found == {i \in 1..Len(db.users) : db.users[i].username = username}
    IN IF found # {} THEN Some(db.users[CHOOSE i \in found : TRUE]) ELSE None

\* get_or_create_user: add, commit and refresh after a select that found no
\* row; users.username is unique, and a commit that breaks it raises
insert_user(db, username, display_name, t) ==
    LET user == User(Len(db.users) + 1, username,
                     IF display_name # None /\ display_name[1] # "" THEN display_name[1] ELSE username, t)
    IN IF select_user(db, username) # None THEN [db |-> db, ret |-> None]
       ELSE [db |-> [db EXCEPT !.users = Append(@, user)], ret |-> Some(user)]

\* create_message: the first commit, that of the message row
insert_message(db, content, message_type, conversation_id, t1) ==
    LET message == Message(Len(db.messages) + 1, content, message_type, conversation_id,
                           t1, None, None)
    IN IF ~ConversationExists(db, conversation_id) THEN [db |-> db, ret |-> None]
       ELSE [db |-> [db EXCEPT !.messages = Append(@, message)], ret |-> Some(message)]

\* create_message: the second commit, an UPDATE of updated_at to the value
\* the caller read from the clock
commit_touch(db, conversation_id, updated_at) ==
    [db EXCEPT !.conversations[conversation_id].updated_at = updated_at]

\* ------------------------------------------------------------------ state
VARIABLES
    users,                 \* table users, users[i].id = i
    conversations,         \* table conversations
    messages,              \* table messages, in insertion order
    now,                   \* the last value read from the clock
    current_user,          \* chatbot_ui.current_user
    current_conversation,  \* chatbot_ui.current_conversation (a detached snapshot)
    storage_user,          \* app.storage.user["username"] of each browser session
    storage_tab,           \* app.storage.tab["current_conversation_id"] of each session
    last,                  \* the last call: its name and what it returned
    scope,                 \* the run: the rows each table can hold, the faults of the storage
    calls                  \* the service call each concurrent caller is in, or made last

vars ==
    <<users, conversations, messages, now, current_user, current_conversation,
      storage_user, storage_tab, last, scope, calls>>

store == [users |-> users, conversations |-> conversations, messages |-> messages]

\* ----------------------------------------------------------------- inputs
Sessions == {"s1", "s2"}

Usernames == {"alice"}

DisplayNames == {None, Some("Alice")}

TitleArgs == {None, Some(<<"T">>)}

NewTitles == {<<"R">>}

\* message texts typed by the user or passed by a caller
Texts ==
    { <<" ", "t", "h", "a", "n", "k", "s", " ">>,
      <<" ", " ">> }

\* message texts passed to the service methods
Contents == { <<" ", "t", "h", "a", "n", "k", "s", " ">> }

\* (message_type, response_time_ms, model_used) of a create_message call
MessageArgs == {<<USER, None, None>>}

ResponseTimes == {0}

\* the limit argument of get_conversation_messages
Limits == {None, Some(0), Some(1)}

\* pieces of user text: blanks, the keywords of the categories in upper and
\* lower case and inside other words, the question mark
Fragments ==
    { <<" ">>,
      <<"\t">>,
      <<"H", "e", "l", "l", "o">>,
      <<"H", "I">>,
      <<"t", "h", "e", "y">>,
      <<"G", "o", "o", "d", " ", "M", "o", "r", "n", "i", "n", "g">>,
      <<"g", "o", "o", "d", " ", "a", "f", "t", "e", "r", "n", "o", "o", "n">>,
      <<"?">>,
      <<"h", "o", "w", " ", "a", "r", "e", " ", "y", "o", "u">>,
      <<"w", "h", "a", "t">>,
      <<"n", "a", "m", "e">>,
      <<"W", "h", "a", "t", "'", "s", " ", "y", "o", "u", "r", " ", "n", "a", "m", "e">>,
      <<"w", "e", "a", "t", "h", "e", "r">>,
      <<"t", "i", "m", "e">>,
      <<"s", "a", "d">>,
      <<"h", "a", "p", "p", "y">>,
      <<"h", "e", "l", "p">>,
      <<"t", "h", "a", "n", "k", "s">>,
      <<"b", "y", "e">> }

\* the texts of at most n fragments
RECURSIVE Phrases(_)
Phrases(n) ==
    IF n = 0 THEN {<<>>}
    ELSE LET shorter == Phrases(n - 1)
         IN shorter \cup {p \o f : p \in shorter, f \in Fragments}

\* the texts given to generate_response
UserMessages == Phrases(MaxFragments)

\* ids passed by a caller: those of stored rows and one of no row
UserIds == 1..2

ConversationIds == 1..3

\* the points at which an operation with a single commit and no later
\* the concurrent callers of the service
Callers == {"p", "q"}

\* a caller that is in no call and has made none
Idle == [pc |-> "idle"]

\* storage access can fault
ReadFaults == {"none", "fail"}

\* a clock read after the value t was read: the clock does not go back
Clock(t) == {u \in {t, t + 1} : u <= MaxTime}

\* the tables stay within the bounds of the model
WithinBounds(db) ==
    /\ Len(db.users) <= scope.users
    /\ Len(db.conversations) <= scope.conversations
    /\ Len(db.messages) <= scope.messages

\* the end of a call: the store it leaves, the last clock value it read and
\* the record of the call
Done(db, t, call) ==
    /\ WithinBounds(db)
    /\ users' = db.users
    /\ conversations' = db.conversations
    /\ messages' = db.messages
    /\ now' = t
    /\ last' = call
    /\ UNCHANGED <<scope, calls>>

UIUnchanged == UNCHANGED <<current_user, current_conversation, storage_user, storage_tab>>

\* the state after startup: empty tables, no session yet
Start ==
    /\ users = <<>>
    /\ conversations = <<>>
    /\ messages = <<>>
    /\ now = 0
    /\ current_user = None
    /\ current_conversation = None
    /\ storage_user = [s \in Sessions |-> None]
    /\ storage_tab = [s \in Sessions |-> None]
    /\ calls = [p \in Callers |-> Idle]
    /\ last = [op |-> "init"]

\* the faults the storage layer can show in this run
StorageFaults == scope.faults

StorageReadFaults == scope.faults \cap ReadFaults

\* a run of the service over a storage layer that can fault
Init ==
    /\ Start
    /\ scope = [users |-> MaxUsers, conversations |-> MaxConversations,
                messages |-> MaxMessages, faults |-> Faults, sessions |-> {"s1"}]

\* a run of the service over a storage layer that does not fault
InitReliable ==
    /\ Start
    /\ scope = [users |-> MaxUsers, conversations |-> MaxConversations,
                messages |-> MaxMessages, faults |-> {"none"}, sessions |-> {"s1"}]

\* a run of the application over a storage layer that does not fault: a page
\* load stores a welcome message and a turn two more messages
\* a run of the application over a storage layer that can fault
InitUI ==
    /\ Start
    /\ scope = [users |-> MaxUsers, conversations |-> MaxConversations,
                messages |-> MaxMessages, faults |-> Faults, sessions |-> {"s1"}]

InitUIReliable ==
    /\ Start
    /\ scope = [users |-> MaxUsers, conversations |-> MaxConversations + 1,
                messages |-> MaxMessages + 1, faults |-> {"none"}, sessions |-> {"s1"}]

\* a run of the service over two conversations and a storage layer that does
\* not fault
InitLists ==
    /\ Start
    /\ scope = [users |-> MaxUsers, conversations |-> MaxConversations + 1,
                messages |-> MaxMessages - 1, faults |-> {"none"}, sessions |-> {"s1"}]

\* the words of the texts given to the title rule
TitleWords ==
    { <<"a">>,
      <<"b", "b">>,
      <<"c", "o", "u", "n", "t", "e", "r", "r", "e", "v", "o", "l", "u", "t", "i", "o", "n",
        "a", "r", "i", "e", "s", "!">> }

\* the whitespace between two words, and around the text
Gaps == { <<" ">>, <<"\t", " ">> }

Pads == { <<>>, <<" ">> }

\* the lists of 1 to n words
RECURSIVE WordLists(_)
WordLists(n) ==
    IF n = 0 THEN {}
    ELSE LET shorter == WordLists(n - 1)
         IN {<<w>> : w \in TitleWords} \cup shorter
               \cup {l \o <<w>> : l \in shorter, w \in TitleWords}

\* the text of the words with gap between them
RECURSIVE Spaced(_, _)
Spaced(words, gap) ==
    IF Len(words) = 1 THEN words[1]
    ELSE words[1] \o gap \o Spaced(Tail(words), gap)

\* a turn about to derive the title from a text of known words
InitTitle ==
    /\ users = <<>>
    /\ conversations = <<>>
    /\ messages = <<>>
    /\ now = 0
    /\ current_user = None
    /\ current_conversation = None
    /\ storage_user = [s \in Sessions |-> None]
    /\ storage_tab = [s \in Sessions |-> None]
    /\ calls = [p \in Callers |-> Idle]
    /\ scope = [users |-> MaxUsers, conversations |-> MaxConversations,
                messages |-> MaxMessages, faults |-> {"none"}, sessions |-> {"s1"}]
    /\ \E words \in WordLists(MaxWords), gap \in Gaps, pad \in Pads :
          last = [op |-> "title_call", words |-> words,
                  content |-> pad \o Spaced(words, gap) \o pad]

\* a run of the application with two sessions over a storage layer that does
\* not fault
InitSessions ==
    /\ Start
    /\ scope = [users |-> MaxUsers + 1, conversations |-> MaxConversations + 2,
                messages |-> MaxMessages + 2, faults |-> {"none"}, sessions |-> Sessions]

\* a run of the service with two concurrent callers over a storage layer
\* that does not fault
InitConcurrent ==
    /\ Start
    /\ scope = [users |-> MaxUsers + 1, conversations |-> MaxConversations,
                messages |-> MaxMessages, faults |-> {"none"}, sessions |-> {"s1"}]

\* a call of generate_response about to be made with user_message
InitGenerate ==
    /\ users = <<>>
    /\ conversations = <<>>
    /\ messages = <<>>
    /\ now = 0
    /\ current_user = None
    /\ current_conversation = None
    /\ storage_user = [s \in Sessions |-> None]
    /\ storage_tab = [s \in Sessions |-> None]
    /\ calls = [p \in Callers |-> Idle]
    /\ scope = [users |-> MaxUsers, conversations |-> MaxConversations,
                messages |-> MaxMessages, faults |-> {"none"}, sessions |-> {"s1"}]
    /\ \E user_message \in UserMessages :
          last = [op |-> "call", user_message |-> user_message]

\* ------------------------------------------- calls of the service methods
GetOrCreateUser ==
    \E username \in Usernames, display_name \in DisplayNames, t \in Clock(now), fault \in StorageFaults :
        LET r == get_or_create_user(store, username, display_name, t, fault)
        IN /\ Done(r.db, t, [op |-> "get_or_create_user", username |-> username,
                             display_name |-> display_name, ret |-> r.ret])
           /\ UIUnchanged

CreateConversation ==
    \E user_id \in UserIds, title \in TitleArgs, t1 \in Clock(now), fault \in StorageFaults :
      \E t2 \in Clock(t1) :
        LET r == create_conversation(store, user_id, title, t1, t2, fault)
        IN /\ Done(r.db, t2, [op |-> "create_conversation", user_id |-> user_id,
                              title |-> title, ret |-> r.ret])
           /\ UIUnchanged

GetConversation ==
    \E conversation_id \in ConversationIds, fault \in StorageReadFaults :
        /\ Done(store, now, [op |-> "get_conversation", conversation_id |-> conversation_id,
                             ret |-> get_conversation(store, conversation_id, fault)])
        /\ UIUnchanged

GetUserConversations ==
    \E user_id \in UserIds, active_only \in BOOLEAN, fault \in StorageReadFaults :
      \E ret \in get_user_conversations(store, user_id, active_only, fault) :
        /\ Done(store, now, [op |-> "get_user_conversations", user_id |-> user_id,
                             active_only |-> active_only, ret |-> ret])
        /\ UIUnchanged

CreateMessage ==
    \E content \in Contents, args \in MessageArgs, conversation_id \in ConversationIds,
       t1 \in Clock(now), fault \in StorageFaults :
      \E t2 \in Clock(t1) :
        LET r == create_message(store, content, args[1], conversation_id,
                                args[2], args[3], t1, t2, fault)
        IN /\ Done(r.db, t2, [op |-> "create_message", content |-> content,
                             message_type |-> args[1],
                             conversation_id |-> conversation_id, ret |-> r.ret])
           /\ UIUnchanged

GetConversationMessages ==
    \E conversation_id \in ConversationIds, limit \in Limits, fault \in StorageReadFaults :
      \E ret \in get_conversation_messages(store, conversation_id, limit, fault) :
        /\ Done(store, now, [op |-> "get_conversation_messages",
                             conversation_id |-> conversation_id, limit |-> limit, ret |-> ret])
        /\ UIUnchanged

GetConversationWithMessages ==
    \E conversation_id \in ConversationIds, fault \in StorageReadFaults,
       fault_messages \in StorageReadFaults :
      \E ret \in get_conversation_with_messages(store, conversation_id, fault, fault_messages) :
        /\ Done(store, now, [op |-> "get_conversation_with_messages",
                             conversation_id |-> conversation_id, ret |-> ret])
        /\ UIUnchanged

UpdateConversationTitle ==
    \E conversation_id \in ConversationIds, title \in NewTitles, t \in Clock(now),
       fault \in StorageFaults :
        LET r == update_conversation_title(store, conversation_id, title, t, fault)
        IN /\ Done(r.db, t, [op |-> "update_conversation_title",
                             conversation_id |-> conversation_id, title |-> title,
                             ret |-> r.ret])
           /\ UIUnchanged

DeleteConversation ==
    \E conversation_id \in ConversationIds, t \in Clock(now), fault \in StorageReadFaults :
        LET r == delete_conversation(store, conversation_id, t, fault)
        IN /\ Done(r.db, t, [op |-> "delete_conversation",
                             conversation_id |-> conversation_id, ret |-> r.ret])
           /\ UIUnchanged

CreateBotMessage ==
    \E content \in Contents, conversation_id \in ConversationIds,
       t \in Clock(now), fault \in StorageFaults :
        LET r == create_bot_message(store, content, conversation_id, None, t, fault)
        IN /\ Done(r.db, t, [op |-> "create_bot_message",
                             conversation_id |-> conversation_id, ret |-> r.ret])
           /\ UIUnchanged

ProcessUserMessage ==
    \E user_message \in Contents, conversation_id \in ConversationIds,
       response_time_ms \in ResponseTimes, t \in Clock(now), fault \in StorageFaults :
      \E reply \in generate_response(user_message) :
        LET r == process_user_message(store, user_message, conversation_id, reply,
                                      response_time_ms, t, fault)
        IN /\ Done(r.db, t, [op |-> "process_user_message", user_message |-> user_message,
                             conversation_id |-> conversation_id, ret |-> r.ret])
           /\ UIUnchanged

\* ------------------------------- service methods of concurrent callers
\* a caller that is between two calls
Free(p) == calls[p].pc \in {"idle", "returned"}

\* a step of a call of caller p: the store it leaves, the clock value it
\* read last, and where the call stands
Stepped(db, t, p, call) ==
    /\ WithinBounds(db)
    /\ users' = db.users
    /\ conversations' = db.conversations
    /\ messages' = db.messages
    /\ now' = t
    /\ calls' = [calls EXCEPT ![p] = call]
    /\ UNCHANGED <<last, scope>>
    /\ UIUnchanged

\* get_or_create_user of caller p up to its select: it returns the row found
SelectUser(p) ==
    /\ Free(p)
    /\ \E username \in Usernames, display_name \in DisplayNames :
          LET user == select_user(store, username)
          IN IF user # None
             THEN Stepped(store, now, p, [pc |-> "returned", op |-> "get_or_create_user",
                                          username |-> username, ret |-> user])
             ELSE Stepped(store, now, p, [pc |-> "selected", op |-> "get_or_create_user",
                                          username |-> username, display_name |-> display_name])

\* get_or_create_user of caller p from the add to its return
InsertUser(p) ==
    /\ calls[p].pc = "selected"
    /\ \E t \in Clock(now) :
          LET r == insert_user(store, calls[p].username, calls[p].display_name, t)
          IN Stepped(r.db, t, p, [pc |-> "returned", op |-> "get_or_create_user",
                                  username |-> calls[p].username, ret |-> r.ret])

\* create_message of caller p up to the commit of the message row
InsertMessage(p) ==
    /\ Free(p)
    /\ \E content \in Contents, conversation_id \in ConversationIds, t1 \in Clock(now) :
          LET r == insert_message(store, content, USER, conversation_id, t1)
          IN IF r.ret = None
             THEN Stepped(r.db, t1, p, [pc |-> "returned", op |-> "create_message",
                                        conversation_id |-> conversation_id, ret |-> None])
             ELSE Stepped(r.db, t1, p, [pc |-> "inserted", op |-> "create_message",
                                        conversation_id |-> conversation_id, ret |-> r.ret])

\* create_message of caller p: session.get and updated_at = utcnow()
ReadTouchClock(p) ==
    /\ calls[p].pc = "inserted"
    /\ \E t2 \in Clock(now) :
          Stepped(store, t2, p, [calls[p] EXCEPT !.pc = "touching"] @@ [updated_at |-> t2])

\* create_message of caller p from the second commit to its return
CommitTouch(p) ==
    /\ calls[p].pc = "touching"
    /\ Stepped(commit_touch(store, calls[p].conversation_id, calls[p].updated_at), now, p,
               [pc |-> "returned", op |-> "create_message",
                conversation_id |-> calls[p].conversation_id, ret |-> calls[p].ret])

\* ChatbotService.generate_response on the text of the pending call
GenerateResponse ==
    /\ last.op = "call"
    /\ \E ret \in generate_response(last.user_message) :
          last' = [op |-> "generate_response", user_message |-> last.user_message, ret |-> ret]
    /\ UNCHANGED <<users, conversations, messages, now, scope, calls>>
    /\ UIUnchanged

\* ------------------------------------------------------ UI layer handlers
\* the username initialize_user makes up for a session that has none
GenUsername(t) == "user_" \o ToString(t)

\* the title rule, were it to cut at 50 characters before the ellipsis
derive_title_cut_at_50(content) ==
    LET title_words == Prefix(Split(Strip(content)), 4)
        new_title == Join(title_words)
    IN IF Len(new_title) > 50 THEN Prefix(new_title, 50) \o Ellipsis ELSE new_title

\* the title send_message derives from the user's message
derive_title(content) ==
    LET title_words == Prefix(Split(Strip(content)), 4)
        new_title == Join(title_words)
    IN IF Len(new_title) > 50 THEN Prefix(new_title, 47) \o Ellipsis ELSE new_title

\* the title rule of send_message on the text of the pending call
DeriveTitle ==
    /\ last.op = "title_call"
    /\ last' = [op |-> "derive_title", words |-> last.words, content |-> last.content,
                ret |-> derive_title(last.content)]
    /\ UNCHANGED <<users, conversations, messages, now, scope, calls>>
    /\ UIUnchanged

\* the record of a send_message call: what it stored for the turn
Sent(s, content, user_message, bot_message) ==
    [op |-> "send_message", session |-> s, content |-> content,
     user_message |-> user_message, bot_message |-> bot_message]

\* send_message, were it to test only for a current conversation
Rejected_no_conversation_only(conversation, content) == conversation = None

\* the guard of send_message: no current conversation, or a blank text
Rejected(conversation, content) == conversation = None \/ Strip(content) = <<>>

\* send_message, were it to go on whatever create_message returned
UserMessageSent_always(user_message) == TRUE

\* send_message goes on to the reply only with the stored USER message
UserMessageSent(user_message) == user_message # None

\* the current conversation after `await self.add_message_to_ui(...)`, were
\* the coroutine to suspend and let a load_conversation event run
AfterAwait_suspending(db, conversation) ==
    {conversation} \cup {Some(db.conversations[c]) : c \in 1..Len(db.conversations)}

\* the current conversation after `await self.add_message_to_ui(...)`: the
\* coroutine holds no await and its run_javascript call is not awaited, so it
\* does not suspend and no other handler runs before send_message goes on
AfterAwait(db, conversation) == {conversation}

\* ChatbotUI.send_message, from the input of session s
SendMessage(s) ==
    \E content \in Texts :
      LET text == Strip(content)
          replies == generate_response(text)
          new_title == derive_title(content)
      IN
      IF Rejected(current_conversation, content)
      THEN /\ Done(store, now, Sent(s, content, None, None))
           /\ UIUnchanged
      ELSE
        \E t1 \in Clock(now), f1 \in StorageFaults : \E t2 \in Clock(t1) :
          LET id == current_conversation[1].id
              r1 == create_message(store, text, USER, id, None, None, t1, t2, f1)
          IN IF ~UserMessageSent(r1.ret)
             THEN /\ Done(r1.db, t2, Sent(s, content, None, None))
                  /\ UIUnchanged
             ELSE
               \E t3 \in Clock(t2), f2 \in StorageFaults, response_time_ms \in ResponseTimes,
                  reply \in replies, conversation \in AfterAwait(r1.db, current_conversation) :
                 LET r2 == process_user_message(r1.db, text, conversation[1].id, reply,
                                                response_time_ms, t3, f2)
                 IN IF r2.ret = None \/ conversation[1].title # NewChatTitle
                    THEN /\ Done(r2.db, t3, Sent(s, content, r1.ret, r2.ret))
                         /\ current_conversation' = conversation
                         /\ UNCHANGED <<current_user, storage_user, storage_tab>>
                    ELSE
                      \E t4 \in Clock(t3), f3 \in StorageFaults :
                        LET r3 == update_conversation_title(r2.db, conversation[1].id,
                                                            new_title, t4, f3)
                        IN /\ Done(r3.db, t4, Sent(s, content, r1.ret, r2.ret))
                           /\ current_conversation' =
                                Some([conversation[1] EXCEPT !.title = new_title])
                           /\ UNCHANGED <<current_user, storage_user, storage_tab>>

\* the record of a create_new_conversation or load_conversation call
Opened(s, op, ret) == [op |-> op, session |-> s, ret |-> ret]

\* ChatbotUI.create_new_conversation, from the "New Chat" button of session s
HandleNewConversation(s) ==
    IF current_user = None
    THEN /\ Done(store, now, Opened(s, "create_new_conversation", FALSE))
         /\ UIUnchanged
    ELSE
      \E t1 \in Clock(now), fault \in StorageFaults : \E t2 \in Clock(t1) :
        LET r == create_conversation(store, current_user[1].id, Some(NewChatTitle), t1, t2, fault)
        IN /\ Done(r.db, t2, Opened(s, "create_new_conversation", r.ret # None))
           /\ current_conversation' = r.ret
           /\ storage_tab' = (IF r.ret # None THEN [storage_tab EXCEPT ![s] = Some(r.ret[1].id)]
                              ELSE storage_tab)
           /\ UNCHANGED <<current_user, storage_user>>

\* ChatbotUI.load_conversation
LoadConversation(s) ==
    \E conversation_id \in ConversationIds, fault \in StorageReadFaults :
        LET r == get_conversation(store, conversation_id, fault)
        IN /\ Done(store, now, Opened(s, "load_conversation", r # None)
                                   @@ [conversation_id |-> conversation_id])
           /\ current_conversation' = r
           /\ storage_tab' = (IF r # None THEN [storage_tab EXCEPT ![s] = Some(conversation_id)]
                              ELSE storage_tab)
           /\ UNCHANGED <<current_user, storage_user>>

\* the record of a page load: the welcome message it stored, if any
Loaded(s, welcome) == [op |-> "chatbot_page", session |-> s, welcome |-> welcome]

\* chatbot_page: a page load of session s
ChatbotPage(s) ==
    \E t0 \in Clock(now), f1 \in StorageFaults : \E t1 \in Clock(t0) :
      LET username == IF storage_user[s] # None THEN storage_user[s][1] ELSE GenUsername(t0)
          r1 == get_or_create_user(store, username, Some("User " \o username), t1, f1)
      IN /\ storage_user' = [storage_user EXCEPT ![s] = Some(username)]
         /\ current_user' = r1.ret
         /\ IF r1.ret = None
            THEN /\ Done(r1.db, t1, Loaded(s, None))
                 /\ UNCHANGED <<current_conversation, storage_tab>>
            ELSE
              \E f2 \in StorageReadFaults, f3 \in StorageFaults, t2 \in Clock(t1) : \E t3 \in Clock(t2) :
                LET tab == storage_tab[s]
                    loaded == IF TruthyInt(tab) THEN get_conversation(r1.db, tab[1], f2) ELSE None
                    r3 == IF loaded # None THEN [db |-> r1.db, ret |-> loaded]
                          ELSE create_conversation(r1.db, r1.ret[1].id, Some(NewChatTitle),
                                                   t2, t3, f3)
                IN /\ (loaded # None => f3 = "none" /\ t2 = t1 /\ t3 = t1)
                   /\ (~TruthyInt(tab) => f2 = "none")
                   /\ current_conversation' = r3.ret
                   /\ IF r3.ret = None
                      THEN /\ Done(r3.db, t3, Loaded(s, None))
                           /\ UNCHANGED storage_tab
                      ELSE
                        \E f4 \in StorageReadFaults, f5 \in StorageFaults, t4 \in Clock(t3) :
                          LET id == r3.ret[1].id
                              empty == <<>> \in get_conversation_messages(r3.db, id, None, f4)
                              r5 == IF empty
                                    THEN create_bot_message(r3.db, WelcomeContent, id, None, t4, f5)
                                    ELSE [db |-> r3.db, ret |-> None]
                          IN /\ (~empty => f5 = "none" /\ t4 = t3)
                             /\ Done(r5.db, t4, Loaded(s, r5.ret))
                             /\ storage_tab' = [storage_tab EXCEPT ![s] = Some(id)]

\* ---------------------------------------------------------- specification
\* the service methods called directly
Next ==
    \/ GetOrCreateUser
    \/ CreateConversation
    \/ GetConversation
    \/ GetUserConversations
    \/ CreateMessage
    \/ GetConversationMessages
    \/ GetConversationWithMessages
    \/ UpdateConversationTitle
    \/ DeleteConversation
    \/ CreateBotMessage
    \/ ProcessUserMessage

Spec == Init /\ [][Next]_vars

SpecReliable == InitReliable /\ [][Next]_vars

\* the application: page loads and UI events of the sessions
NextUI ==
    \/ \E s \in scope.sessions : SendMessage(s)
    \/ \E s \in scope.sessions : HandleNewConversation(s)
    \/ \E s \in scope.sessions : LoadConversation(s)
    \/ \E s \in scope.sessions : ChatbotPage(s)
    \/ UpdateConversationTitle
    \/ DeleteConversation

SpecUI == InitUI /\ [][NextUI]_vars

\* the response generator on its own
NextGenerate == GenerateResponse

SpecGenerate == InitGenerate /\ [][NextGenerate]_vars

SpecUIReliable == InitUIReliable /\ [][NextUI]_vars

\* the page loads, turns and new conversations of the sessions
NextSessions ==
    \/ \E s \in scope.sessions : SendMessage(s)
    \/ \E s \in scope.sessions : HandleNewConversation(s)
    \/ \E s \in scope.sessions : ChatbotPage(s)

SpecSessions == InitSessions /\ [][NextSessions]_vars

\* get_or_create_user and create_message of concurrent callers, statement by
\* statement, and create_conversation
NextConcurrent ==
    \/ \E p \in Callers : SelectUser(p)
    \/ \E p \in Callers : InsertUser(p)
    \/ \E p \in Callers : InsertMessage(p)
    \/ \E p \in Callers : ReadTouchClock(p)
    \/ \E p \in Callers : CommitTouch(p)
    \/ CreateConversation

SpecConcurrent == InitConcurrent /\ [][NextConcurrent]_vars

\* the title rule on its own
NextTitle == DeriveTitle

SpecTitle == InitTitle /\ [][NextTitle]_vars

SpecLists == InitLists /\ [][Next]_vars

\* the application over conversations that create_conversation also makes
NextApp ==
    \/ \E s \in scope.sessions : SendMessage(s)
    \/ \E s \in scope.sessions : HandleNewConversation(s)
    \/ \E s \in scope.sessions : LoadConversation(s)
    \/ \E s \in scope.sessions : ChatbotPage(s)
    \/ CreateConversation

SpecApp == InitUIReliable /\ [][NextApp]_vars

\* ------------------------------------------------------------ properties
StoreUnchanged == users' = users /\ conversations' = conversations /\ messages' = messages

\* the messages of conversation c in insertion order
MessagesOf(c) ==
    LET Match(m) == m.conversation_id = c IN SelectSeq(messages, Match)

Ids(rows) == {rows[i].id : i \in 1..Len(rows)}

\* C1: every conversation that has messages has updated_at >= the created_at
\* of its newest message, whichever operation appended the message.
C1_UpdatedAtCoversNewestMessage ==
    \A i \in 1..Len(messages) :
        conversations[messages[i].conversation_id].updated_at >= messages[i].created_at

\* C2: no step of create_message, update_conversation_title,
\* delete_conversation or process_user_message lowers a conversation's
\* updated_at.
C2_UpdatedAtNeverDecreases ==
    [][\A c \in 1..Len(conversations) :
          conversations'[c].updated_at >= conversations[c].updated_at]_vars

\* two appends through create_message, the second one moving updated_at
C2_Witness ==
    /\ last.op = "create_message"
    /\ last.ret # None
    /\ Len(MessagesOf(last.conversation_id)) >= 2
    /\ conversations[last.conversation_id].updated_at
         > conversations[last.conversation_id].created_at

\* C3: a create_message call that returns None has added no message row and
\* has left every conversation as it was.
C3_CreateMessageAllOrNothing ==
    [][(last'.op = "create_message" /\ last'.ret = None) =>
          (messages' = messages /\ conversations' = conversations)]_vars

\* C4: a process_user_message call with non-blank text on an existing
\* conversation stores one USER message holding the trimmed text and then one
\* BOT message holding the reply, the USER message before the BOT message in
\* every get_conversation_messages result, and returns the BOT message.
C4_TurnStoresUserThenBot ==
    [][(/\ last'.op = "process_user_message"
        /\ Strip(last'.user_message) # <<>>
        /\ last'.conversation_id \in 1..Len(conversations))
          => LET n == Len(messages)
             IN /\ last'.ret # None
                /\ Len(messages') = n + 2
                /\ SubSeq(messages', 1, n) = messages
                /\ messages'[n + 1].message_type = USER
                /\ messages'[n + 1].content = Strip(last'.user_message)
                /\ messages'[n + 1].conversation_id = last'.conversation_id
                /\ messages'[n + 2] = last'.ret[1]
                /\ last'.ret[1].message_type = BOT
                /\ last'.ret[1].content \in generate_response(last'.user_message)
                /\ \A l \in get_conversation_messages([users |-> users',
                                                       conversations |-> conversations',
                                                       messages |-> messages'],
                                                      last'.conversation_id, None, "none") :
                       \A i, j \in 1..Len(l) :
                           (l[i] = messages'[n + 1] /\ l[j] = messages'[n + 2]) => i < j]_vars

\* C5: process_user_message on a conversation id that does not exist returns
\* None and leaves the store unchanged.
C5_ProcessUnknownConversation ==
    [][(/\ last'.op = "process_user_message"
        /\ last'.conversation_id \notin 1..Len(conversations))
          => (last'.ret = None /\ StoreUnchanged)]_vars

C5_Witness ==
    /\ last.op = "process_user_message"
    /\ last.conversation_id \notin 1..Len(conversations)
    /\ last.ret = None
    /\ users # <<>>

\* C6: get_conversation_messages returns all messages of the conversation,
\* sorted by created_at ascending, messages with equal created_at in the
\* order they were inserted.
C6_MessagesInInsertionOrder ==
    (last.op = "get_conversation_messages" /\ last.limit = None) =>
        last.ret = MessagesOf(last.conversation_id)

\* C7: get_or_create_user on a stored username returns the stored user and
\* changes nothing; on a new username it stores and returns a user whose
\* display_name is the one given, or the username when none is given.
C7_GetOrCreateUserIdempotent ==
    [][(last'.op = "get_or_create_user" /\ last'.ret # None) =>
          LET found == {i \in 1..Len(users) : users[i].username = last'.username}
          IN IF found # {}
             THEN /\ users' = users
                  /\ \E i \in found : last'.ret[1] = users[i]
                  /\ Cardinality(found) = 1
             ELSE /\ users' = Append(users, last'.ret[1])
                  /\ last'.ret[1].id = Len(users) + 1
                  /\ last'.ret[1].username = last'.username
                  /\ last'.ret[1].display_name =
                       (IF last'.display_name = None \/ last'.display_name = Some("")
                        THEN last'.username
                        ELSE last'.display_name[1])]_vars

\* a second call whose display_name differs from the stored one
C7_Witness ==
    /\ last.op = "get_or_create_user"
    /\ last.ret # None
    /\ last.display_name # None
    /\ last.ret[1].display_name # last.display_name[1]

\* C8: a conversation that delete_conversation has deleted is still returned
\* by get_conversation, with is_active false; it is in no active-only list of
\* its owner and in every full list of its owner.
C8_SoftDeleteVisibility ==
    /\ (last.op = "delete_conversation" /\ last.ret) =>
          ~conversations[last.conversation_id].is_active
    /\ \A c \in 1..Len(conversations) :
          ~conversations[c].is_active =>
             /\ get_conversation(store, c, "none") = Some(conversations[c])
             /\ \A l \in get_user_conversations(store, conversations[c].user_id, TRUE, "none") :
                    c \notin Ids(l)
             /\ \A l \in get_user_conversations(store, conversations[c].user_id, FALSE, "none") :
                    c \in Ids(l)

C8_Witness ==
    /\ last.op = "delete_conversation"
    /\ last.ret
    /\ ~conversations[last.conversation_id].is_active

\* C9: a conversation whose is_active is false keeps is_active false in
\* every later state: no send_message, page load, load_conversation,
\* update_conversation_title or delete_conversation step sets it back to true.
C9_IsActiveOnlyFalls ==
    [][\A c \in 1..Len(conversations) :
          ~conversations[c].is_active => ~conversations'[c].is_active]_vars

\* a title change of a conversation that was deleted before
C9_Witness ==
    /\ last.op = "update_conversation_title"
    /\ last.ret # None
    /\ ~last.ret[1].is_active
    /\ ~conversations[last.conversation_id].is_active

\* C10: create_message and create_bot_message on a conversation id that does
\* not exist return None and add no row; every message's conversation_id is
\* the id of a stored conversation.
C10_MessagesReferenceConversations ==
    [][/\ \A i \in 1..Len(messages') :
             messages'[i].conversation_id \in 1..Len(conversations')
       /\ (/\ last'.op \in {"create_message", "create_bot_message"}
           /\ last'.conversation_id \notin 1..Len(conversations))
             => (last'.ret = None /\ StoreUnchanged)]_vars

C10_Witness ==
    /\ last.op \in {"create_message", "create_bot_message"}
    /\ last.conversation_id \notin 1..Len(conversations)
    /\ last.ret = None
    /\ conversations # <<>>

\* C11: create_conversation on a user id that does not exist returns None and
\* adds no row, so every conversation's user_id is the id of a stored user;
\* on a stored user a successful call appends an active conversation whose
\* title is the one given, or "New Conversation" when none is given.
C11_ConversationsReferenceUsers ==
    [][/\ \A c \in 1..Len(conversations') :
             conversations'[c].user_id \in 1..Len(users')
       /\ (last'.op = "create_conversation" /\ last'.user_id \notin 1..Len(users))
             => (last'.ret = None /\ StoreUnchanged)
       /\ (last'.op = "create_conversation" /\ last'.ret # None)
             => /\ conversations' = Append(conversations, last'.ret[1])
                /\ last'.ret[1].id = Len(conversations) + 1
                /\ last'.ret[1].user_id = last'.user_id
                /\ last'.ret[1].is_active
                /\ last'.ret[1].title =
                     (IF last'.title = None THEN DefaultTitle ELSE last'.title[1])]_vars

\* a call for a user id of no row, next to a stored user
C11_Witness ==
    /\ last.op = "create_conversation"
    /\ last.user_id \notin 1..Len(users)
    /\ last.ret = None
    /\ users # <<>>

\* a successful call with a title of the caller's
C11_WitnessTitle ==
    /\ last.op = "create_conversation"
    /\ last.ret # None
    /\ last.title # None
    /\ last.ret[1].title = last.title[1]

\* C12: whatever the store holds, every persistence operation hit by a
\* storage fault returns its failure value: None, the empty list or False.
C12_FaultsReturnFailure ==
    /\ \A username \in Usernames, display_name \in DisplayNames, t \in Clock(now) :
          /\ get_or_create_user(store, username, display_name, t, "fail").ret = None
          /\ (\A i \in 1..Len(users) : users[i].username # username)
                => get_or_create_user(store, username, display_name, t, "late").ret = None
    /\ \A user_id \in UserIds, title \in TitleArgs, t \in Clock(now),
          fault \in {"fail", "late"} :
          create_conversation(store, user_id, title, t, t, fault).ret = None
    /\ \A conversation_id \in ConversationIds :
          /\ get_conversation(store, conversation_id, "fail") = None
          /\ \A limit \in Limits :
                get_conversation_messages(store, conversation_id, limit, "fail") = {<<>>}
          /\ \A faults \in (ReadFaults \X ReadFaults) \ {<<"none", "none">>} :
                get_conversation_with_messages(store, conversation_id,
                                               faults[1], faults[2]) = {None}
          /\ \A t \in Clock(now) :
                /\ \A content \in Contents, args \in MessageArgs, fault \in {"fail", "late"} :
                      create_message(store, content, args[1], conversation_id,
                                     args[2], args[3], t, t, fault).ret = None
                /\ \A title \in NewTitles, fault \in {"fail", "late"} :
                      update_conversation_title(store, conversation_id, title, t, fault).ret = None
                /\ delete_conversation(store, conversation_id, t, "fail").ret = FALSE
    /\ \A user_id \in UserIds, active_only \in BOOLEAN :
          get_user_conversations(store, user_id, active_only, "fail") = {<<>>}

\* the text is empty or whitespace only
Blank(content) == \A i \in 1..Len(content) : IsSpace(content[i])

\* the rows of type BOT in a message table
BotRows(rows) == {i \in 1..Len(rows) : rows[i].message_type = BOT}

\* C13: a send_message call whose text is empty or whitespace only stores no
\* USER message and no BOT message and changes no conversation.
C13_BlankTurnRejected ==
    [][(last'.op = "send_message" /\ Blank(last'.content))
          => /\ StoreUnchanged
             /\ last'.user_message = None
             /\ last'.bot_message = None]_vars

\* a blank text sent in an open conversation
C13_Witness ==
    /\ last.op = "send_message"
    /\ Blank(last.content)
    /\ current_conversation # None
    /\ conversations # <<>>

\* C14: a send_message call whose USER message could not be stored ends there:
\* it has no reply and adds no BOT message.
C14_FailedUserMessageStopsTurn ==
    [][(last'.op = "send_message" /\ last'.user_message = None)
          => /\ last'.bot_message = None
             /\ BotRows(messages') = BotRows(messages)
             /\ conversations' = conversations]_vars

\* a non-blank text sent in an open conversation, the USER message not stored
C14_Witness ==
    /\ last.op = "send_message"
    /\ ~Blank(last.content)
    /\ current_conversation # None
    /\ last.user_message = None

\* C15: a send_message call that stored the USER message and got no reply
\* from process_user_message has added that USER message and no BOT message.
C15_FailedReplyLeavesOrphan ==
    [][(/\ last'.op = "send_message"
        /\ last'.user_message # None
        /\ last'.bot_message = None)
          => /\ messages' = Append(messages, last'.user_message[1])
             /\ BotRows(messages') = BotRows(messages)]_vars

\* C16: a message returned by process_user_message has type BOT, the
\* conversation_id of the call, an id of its own, a response_time_ms that is
\* present and >= 0, and model_used "simple-chatbot-v1.0".
C16_ReplyFields ==
    [][(last'.op = "process_user_message" /\ last'.ret # None)
          => LET bot_message == last'.ret[1]
             IN /\ bot_message.message_type = BOT
                /\ bot_message.conversation_id = last'.conversation_id
                /\ bot_message.id >= 1
                /\ \A i \in 1..Len(messages) : messages[i].id # bot_message.id
                /\ bot_message.response_time_ms # None
                /\ bot_message.response_time_ms[1] >= 0
                /\ bot_message.model_used = Some("simple-chatbot-v1.0")
                /\ messages' = Append(messages, bot_message)]_vars

\* a reply stored after another message
C16_Witness ==
    /\ last.op = "process_user_message"
    /\ last.ret # None
    /\ last.ret[1].id = 2
    /\ last.ret[1].response_time_ms # None

\* C17: a text whose lower-cased form contains "hello", "hi", "hey",
\* "good morning" or "good afternoon" gets one of the 4 greeting replies.
C17_GreetingKeywordsGetGreeting ==
    (/\ last.op = "generate_response"
     /\ \E keyword \in { <<"h", "e", "l", "l", "o">>,
                         <<"h", "i">>,
                         <<"h", "e", "y">>,
                         <<"g", "o", "o", "d", " ", "m", "o", "r", "n", "i", "n", "g">>,
                         <<"g", "o", "o", "d", " ", "a", "f", "t", "e", "r", "n", "o", "o", "n">> } :
           Contains(Lower(last.user_message), keyword))
       => /\ last.ret \in Range(GreetingResponses)
          /\ Cardinality(Range(GreetingResponses)) = 4

\* a text that holds a greeting keyword only once its capitals are lowered,
\* and ends in a question mark
C17_Witness ==
    /\ last.op = "generate_response"
    /\ Contains(Lower(last.user_message), <<"g", "o", "o", "d", " ", "m", "o", "r", "n", "i", "n", "g">>)
    /\ ~ContainsAny(last.user_message, GreetingKeywords)
    /\ EndsWith(last.user_message, <<"?">>)

\* C18: a text that ends with "?" once trimmed never gets a greeting reply.
C18_QuestionNeverGreeting ==
    (/\ last.op = "generate_response"
     /\ EndsWith(Strip(last.user_message), <<"?">>))
       => last.ret \notin Range(GreetingResponses)

\* the conditions of the eight categories on the trimmed lower-cased text x
C19_Matches(x) ==
    << ContainsAny(x, GreetingKeywords),
       EndsWith(x, <<"?">>),
       ContainsAny(x, NegativeKeywords),
       ContainsAny(x, PositiveKeywords),
       ContainsAny(x, HelpKeywords),
       ContainsAny(x, ThanksKeywords),
       ContainsAny(x, GoodbyeKeywords),
       TRUE >>

\* the replies of the eight categories
C19_Replies ==
    << Range(GreetingResponses),
       {HowAreYouResponse, NameResponse, WeatherResponse, TimeResponse}
          \cup Range(GenericQuestionResponses),
       {NegativeResponse},
       {PositiveResponse},
       {HelpResponse},
       {ThanksResponse},
       Range(GoodbyeResponses),
       Range(default_responses) >>

\* C19: the reply comes from the first of the categories greeting, question,
\* negative emotion, positive emotion, help, gratitude, farewell, fallback
\* whose condition the trimmed lower-cased text satisfies, and from no other.
C19_FirstMatchingCategory ==
    last.op = "generate_response" =>
        LET matches == C19_Matches(Strip(Lower(last.user_message)))
            first == CHOOSE i \in 1..8 : matches[i] /\ \A j \in 1..(i - 1) : ~matches[j]
        IN /\ last.ret \in C19_Replies[first]
           /\ \A j \in (1..8) \ {first} : last.ret \notin C19_Replies[j]

\* a question without a greeting that holds keywords of later categories
C19_Witness ==
    /\ last.op = "generate_response"
    /\ LET matches == C19_Matches(Strip(Lower(last.user_message)))
       IN ~matches[1] /\ matches[2] /\ matches[3] /\ matches[5]
    /\ last.ret \in C19_Replies[2]

\* C20: the empty text and a text of whitespace only match no keyword
\* category and get a non-empty reply, one of the 6 fallback replies.
C20_BlankGetsFallback ==
    (last.op = "generate_response" /\ Blank(last.user_message))
       => /\ \A i \in 1..7 : ~C19_Matches(Strip(Lower(last.user_message)))[i]
          /\ last.ret \in Range(default_responses)
          /\ last.ret # <<>>
          /\ Cardinality(Range(default_responses)) = 6

\* a text of whitespace only, a tab in it
C20_Witness ==
    /\ last.op = "generate_response"
    /\ last.user_message # <<>>
    /\ Blank(last.user_message)
    /\ "\t" \in Range(last.user_message)

\* the list get_user_conversations returned holds exactly the rows of the
\* user (the active ones when active_only), each once and as stored, by
\* updated_at descending
ListedByUpdatedAt(l, user_id, active_only) ==
    /\ Ids(l) = {c \in 1..Len(conversations) :
                    /\ conversations[c].user_id = user_id
                    /\ (active_only => conversations[c].is_active)}
    /\ Cardinality(Ids(l)) = Len(l)
    /\ \A i \in 1..Len(l) : l[i] = conversations[l[i].id]
    /\ \A i, j \in 1..Len(l) : i < j => l[i].updated_at >= l[j].updated_at

\* no conversation after the first of the list l was appended to later than
\* the first was created, renamed or appended to
MostRecentFirst(l) ==
    \A i \in 2..Len(l) : \A k \in 1..Len(messages) :
        messages[k].conversation_id = l[i].id =>
            \/ messages[k].created_at <= l[1].updated_at
            \/ \E n \in 1..Len(messages) :
                  /\ messages[n].conversation_id = l[1].id
                  /\ messages[n].created_at >= messages[k].created_at

\* C21: get_user_conversations(u, active_only) returns exactly the
\* conversations of user u (only the active ones when active_only), each once,
\* sorted by updated_at descending, so that the conversation most recently
\* created, appended to or renamed comes first.
C21_ListedMostRecentFirst ==
    last.op = "get_user_conversations" =>
        /\ ListedByUpdatedAt(last.ret, last.user_id, last.active_only)
        /\ MostRecentFirst(last.ret)

\* the part of C21 the code keeps: the rows and their order by updated_at
C21_ListedByUpdatedAt ==
    last.op = "get_user_conversations" =>
        ListedByUpdatedAt(last.ret, last.user_id, last.active_only)

\* the list l holds n messages of conversation c, each once and as stored,
\* by created_at ascending, and no message of c left out is older than one of
\* the list
FirstByCreatedAt(l, c, n) ==
    /\ Len(l) = n
    /\ Cardinality(Ids(l)) = Len(l)
    /\ \A i \in 1..Len(l) : l[i].conversation_id = c /\ l[i] = messages[l[i].id]
    /\ \A i, j \in 1..Len(l) : i < j => l[i].created_at <= l[j].created_at
    /\ \A i \in 1..Len(l), k \in 1..Len(messages) :
          messages[k].conversation_id = c /\ k \notin Ids(l) =>
              l[i].created_at <= messages[k].created_at

\* C22: for every supplied limit n >= 0, get_conversation_messages(c, limit=n)
\* returns at most n messages, the first min(n, total) of the conversation by
\* created_at ascending; with no limit it returns all of them.
C22_LimitReturnsFirstN ==
    last.op = "get_conversation_messages" =>
        LET total == Len(MessagesOf(last.conversation_id))
            n == IF last.limit = None THEN total
                 ELSE IF last.limit[1] < total THEN last.limit[1] ELSE total
        IN FirstByCreatedAt(last.ret, last.conversation_id, n)

\* the part of C22 the code keeps: a limit n >= 1, or none
C22_PositiveLimitReturnsFirstN ==
    last.op = "get_conversation_messages" /\ last.limit # Some(0) =>
        LET total == Len(MessagesOf(last.conversation_id))
            n == IF last.limit = None THEN total
                 ELSE IF last.limit[1] < total THEN last.limit[1] ELSE total
        IN FirstByCreatedAt(last.ret, last.conversation_id, n)

\* C23: after a successful create_message(C, type, c), whatever whitespace C
\* starts or ends with, get_conversation_messages(c) yields a message whose
\* content is exactly C, with the given message_type and conversation_id.
C23_CreateMessageRoundTrip ==
    [][last'.op = "create_message" /\ last'.ret # None =>
          \A l \in get_conversation_messages(store', last'.conversation_id, None, "none") :
              \E i \in 1..Len(l) :
                  /\ l[i].id = last'.ret[1].id
                  /\ l[i].content = last'.content
                  /\ l[i].message_type = last'.message_type
                  /\ l[i].conversation_id = last'.conversation_id]_vars

\* a message that starts and ends with whitespace was created and is stored
C23_Witness ==
    /\ last.op = "create_message"
    /\ last.ret # None
    /\ IsSpace(Head(last.content))
    /\ IsSpace(last.content[Len(last.content)])
    /\ messages[last.ret[1].id].content = last.content

\* the titles a conversation is created with when none is chosen
DefaultTitles == {NewChatTitle, DefaultTitle}

\* C24: a successful exchange in a conversation whose stored title is still
\* "New Chat" or "New Conversation" leaves the derived title stored; a turn
\* never renames a conversation whose title is not one of these defaults.
C24_TurnRenamesDefaultTitlesOnly ==
    [][/\ last'.op = "send_message"
       /\ last'.user_message # None
       /\ last'.bot_message # None
       => LET id == last'.user_message[1].conversation_id
              title == conversations[id].title
          IN conversations'[id].title =
                 IF title \in DefaultTitles THEN derive_title(last'.content) ELSE title]_vars

\* the conversations other than id are as they were, and none was added
OtherConversationsUnchanged(id) ==
    /\ Len(conversations') = Len(conversations)
    /\ \A c \in 1..Len(conversations) : c # id => conversations'[c] = conversations[c]

\* C25: update_conversation_title(id, t) on an existing id sets the title to
\* t, moves updated_at to the time of the call, which is not before its
\* previous value, leaves is_active, user_id, created_at and every message as
\* they were and returns the updated record; on an unknown id it returns
\* nothing and changes nothing.
C25_UpdateTitleFrame ==
    [][last'.op = "update_conversation_title" =>
          LET id == last'.conversation_id
          IN IF id \in 1..Len(conversations)
             THEN /\ conversations'[id] = [conversations[id] EXCEPT !.title = last'.title,
                                                                    !.updated_at = now']
                  /\ now' >= conversations[id].updated_at
                  /\ OtherConversationsUnchanged(id)
                  /\ messages' = messages
                  /\ users' = users
                  /\ last'.ret = Some(conversations'[id])
             ELSE last'.ret = None /\ StoreUnchanged]_vars

\* a conversation that holds a message was renamed after the time it was made
C25_Witness ==
    /\ last.op = "update_conversation_title"
    /\ last.ret # None
    /\ last.ret[1].title = last.title
    /\ last.ret[1].title # DefaultTitle
    /\ last.ret[1].updated_at > last.ret[1].created_at
    /\ MessagesOf(last.conversation_id) # <<>>

\* C26: delete_conversation(c) on an existing c changes only is_active, to
\* false, and updated_at: title and owner stay, no message is removed or
\* altered, and get_conversation_messages(c) returns what it returned before;
\* on an unknown id it returns false and changes nothing.
C26_DeleteFrame ==
    [][last'.op = "delete_conversation" =>
          LET id == last'.conversation_id
          IN IF id \in 1..Len(conversations)
             THEN /\ conversations'[id] = [conversations[id] EXCEPT !.is_active = FALSE,
                                                                    !.updated_at = now']
                  /\ OtherConversationsUnchanged(id)
                  /\ messages' = messages
                  /\ users' = users
                  /\ get_conversation_messages(store', id, None, "none") =
                        get_conversation_messages(store, id, None, "none")
                  /\ last'.ret = TRUE
             ELSE last'.ret = FALSE /\ StoreUnchanged]_vars

\* an active conversation that holds messages was deleted
C26_Witness ==
    /\ last.op = "delete_conversation"
    /\ last.ret = TRUE
    /\ ~conversations[last.conversation_id].is_active
    /\ conversations[last.conversation_id].updated_at >
           conversations[last.conversation_id].created_at
    /\ Len(MessagesOf(last.conversation_id)) = MaxMessages

\* C27: the store is append-only: no operation removes a user, conversation
\* or message row, changes the content, message_type, conversation_id or
\* created_at of a stored message, or changes the user_id or created_at of a
\* stored conversation.
C27_AppendOnly ==
    [][/\ Len(users') >= Len(users)
       /\ Len(conversations') >= Len(conversations)
       /\ Len(messages') >= Len(messages)
       /\ \A u \in 1..Len(users) : users'[u].id = users[u].id
       /\ \A c \in 1..Len(conversations) :
             /\ conversations'[c].id = conversations[c].id
             /\ conversations'[c].user_id = conversations[c].user_id
             /\ conversations'[c].created_at = conversations[c].created_at
       /\ \A k \in 1..Len(messages) :
             /\ messages'[k].id = messages[k].id
             /\ messages'[k].content = messages[k].content
             /\ messages'[k].message_type = messages[k].message_type
             /\ messages'[k].conversation_id = messages[k].conversation_id
             /\ messages'[k].created_at = messages[k].created_at]_vars

\* a conversation that holds messages was deleted and then renamed
C27_Witness ==
    /\ last.op = "update_conversation_title"
    /\ last.ret # None
    /\ ~last.ret[1].is_active
    /\ Len(MessagesOf(last.conversation_id)) = MaxMessages

\* the contents process_user_message can store for the texts of a turn
TurnReplies ==
    UNION {generate_response(Strip(content)) : content \in Texts} \cup {ErrorResponse}

C29_Matches(x) ==
    << Contains(x, HowAreYouKeyword),
       Contains(x, WhatKeyword) /\ Contains(x, NameKeyword),
       Contains(x, WeatherKeyword),
       Contains(x, TimeKeyword),
       TRUE >>

\* the replies of the five question rules
C29_Replies ==
    << {HowAreYouResponse},
       {NameResponse},
       {WeatherResponse},
       {TimeResponse},
       Range(GenericQuestionResponses) >>

\* a text that ends with "?" and holds no greeting keyword
C29_Question(x) == EndsWith(x, <<"?">>) /\ ~ContainsAny(x, GreetingKeywords)

\* C29: a text that ends with "?" and holds no greeting keyword is answered
\* by the first of the rules "how are you", "what" with "name", "weather",
\* "time" that it satisfies, and by one of the 3 generic question replies
\* when it satisfies none.
C29_FirstMatchingQuestionRule ==
    last.op = "generate_response" /\ C29_Question(Strip(Lower(last.user_message))) =>
        LET matches == C29_Matches(Strip(Lower(last.user_message)))
            first == CHOOSE i \in 1..5 : matches[i] /\ \A j \in 1..(i - 1) : ~matches[j]
        IN /\ last.ret \in C29_Replies[first]
           /\ \A j \in (1..5) \ {first} : last.ret \notin C29_Replies[j]
           /\ Cardinality(C29_Replies[5]) = 3

\* a question that holds "what" with "name" and also "weather" got the reply
\* of the earlier rule
C29_Witness ==
    /\ last.op = "generate_response"
    /\ C29_Question(Strip(Lower(last.user_message)))
    /\ LET matches == C29_Matches(Strip(Lower(last.user_message)))
       IN ~matches[1] /\ matches[2] /\ matches[3]
    /\ last.ret = NameResponse

\* the reply list of the category of the text x: that of the first category
\* x satisfies and, for a question, of the first question rule x satisfies
C30_ReplyList(x) ==
    LET matches == C19_Matches(x)
        first == CHOOSE i \in 1..8 : matches[i] /\ \A j \in 1..(i - 1) : ~matches[j]
        rules == C29_Matches(x)
        rule == CHOOSE i \in 1..5 : rules[i] /\ \A j \in 1..(i - 1) : ~rules[j]
    IN IF first = 2 THEN C29_Replies[rule] ELSE C19_Replies[first]

\* C30: the values generate_response(x) can return are exactly the replies
\* of the list of x's category, which the text alone decides; the reply is
\* one of these literals, of 5 to 500 characters; the call changes no stored
\* row: the tables, empty before the call, are empty after it.
C30_ReplyFromCategoryList ==
    last.op = "generate_response" =>
        LET replies == C30_ReplyList(Strip(Lower(last.user_message)))
        IN /\ generate_response(last.user_message) = replies
           /\ last.ret \in replies
           /\ Len(last.ret) >= 5 /\ Len(last.ret) <= 500
           /\ users = <<>> /\ conversations = <<>> /\ messages = <<>> /\ now = 0

\* a text that is not blank and fits no category got the last fallback reply
C30_Witness ==
    /\ last.op = "generate_response"
    /\ Strip(last.user_message) # <<>>
    /\ last.ret = default_responses[Len(default_responses)]

\* the first min(4, k) of the k words, joined by single spaces
C31_FirstWords(words) == Join(Prefix(words, 4))

\* C31: the derived title is the first min(4, k) whitespace-separated words
\* of the trimmed text joined by single spaces; when that is longer than 50
\* characters it is cut to a title of at most 50 characters that ends with
\* "...", otherwise it is used unchanged; the title never exceeds 50
\* characters.
C31_DerivedTitle ==
    last.op = "derive_title" =>
        LET joined == C31_FirstWords(last.words)
        IN /\ Len(last.ret) <= 50
           /\ IF Len(joined) > 50
              THEN /\ EndsWith(last.ret, <<".", ".", ".">>)
                   /\ Prefix(last.ret, Len(last.ret) - 3) =
                          Prefix(joined, Len(last.ret) - 3)
              ELSE last.ret = joined

\* a text of five words in tabs and spaces whose first four make 51
\* characters got a cut title
C31_Witness ==
    /\ last.op = "derive_title"
    /\ Len(last.words) = MaxWords
    /\ Len(C31_FirstWords(last.words)) = 51
    /\ Contains(last.content, <<"\t">>)
    /\ IsSpace(Head(last.content))
    /\ Len(last.ret) = 50

\* a text whose first four words make exactly 50 characters kept them
C31_WitnessUncut ==
    /\ last.op = "derive_title"
    /\ Len(C31_FirstWords(last.words)) = 50
    /\ last.ret = C31_FirstWords(last.words)

\* the entry r of a composite view shows the stored message msg
ShowsMessage(r, msg) ==
    /\ r.id = msg.id
    /\ r.content = msg.content
    /\ r.message_type = msg.message_type
    /\ r.conversation_id = msg.conversation_id
    /\ r.created_at = isoformat(msg.created_at)
    /\ r.response_time_ms = msg.response_time_ms
    /\ r.model_used = msg.model_used

\* C32: get_conversation_with_messages(c) returns nothing exactly when c does
\* not exist; otherwise its conversation fields are those get_conversation(c)
\* returns, timestamps in ISO form, and its message list has the length,
\* order, content, type and metadata of a list get_conversation_messages(c)
\* returns without a limit, also for a soft-deleted c.
C32_CompositeViewAgrees ==
    last.op = "get_conversation_with_messages" =>
        LET conversation == get_conversation(store, last.conversation_id, "none")
            lists == get_conversation_messages(store, last.conversation_id, None, "none")
        IN /\ (last.ret = None) <=> (conversation = None)
           /\ last.ret # None =>
                 /\ last.ret[1].id = conversation[1].id
                 /\ last.ret[1].title = conversation[1].title
                 /\ last.ret[1].user_id = conversation[1].user_id
                 /\ last.ret[1].is_active = conversation[1].is_active
                 /\ last.ret[1].created_at = isoformat(conversation[1].created_at)
                 /\ last.ret[1].updated_at = isoformat(conversation[1].updated_at)
                 /\ \E l \in lists :
                       /\ Len(last.ret[1].messages) = Len(l)
                       /\ \A i \in 1..Len(l) : ShowsMessage(last.ret[1].messages[i], l[i])

\* the composite view of a soft-deleted conversation that holds a USER and a
\* BOT message
C32_Witness ==
    /\ last.op = "get_conversation_with_messages"
    /\ last.ret # None
    /\ ~last.ret[1].is_active
    /\ Len(last.ret[1].messages) = MaxMessages
    /\ \E i, j \in 1..Len(last.ret[1].messages) :
          /\ last.ret[1].messages[i].message_type = USER
          /\ last.ret[1].messages[j].message_type = BOT

\* C33: the BOT reply of a turn is stored in the conversation of the turn's
\* USER message, whatever create_new_conversation, load_conversation and page
\* load events the shared ChatbotUI instance handles around the turn.
C33_ReplyInConversationOfUserMessage ==
    [][last'.op = "send_message" /\ last'.user_message # None /\ last'.bot_message # None =>
          /\ last'.bot_message[1].conversation_id = last'.user_message[1].conversation_id
          /\ messages'[last'.bot_message[1].id].conversation_id =
                 messages'[last'.user_message[1].id].conversation_id]_vars

\* a turn in the second conversation after the current conversation changed
C33_Witness ==
    /\ last.op = "send_message"
    /\ last.user_message # None
    /\ last.bot_message # None
    /\ last.user_message[1].conversation_id = Len(conversations)
    /\ Len(conversations) > 1
    /\ last.bot_message[1].id = last.user_message[1].id + 1

\* the step is a UI event of a session that has loaded the page
SessionEvent ==
    /\ last'.op \in {"send_message", "create_new_conversation", "chatbot_page"}
    /\ storage_user'[last'.session] # None

\* conversation c belongs, after the step, to the user of session s
OwnedBySession(c, s) ==
    users'[conversations'[c].user_id].username = storage_user'[s][1]

\* C34: with two sessions on the one ChatbotUI instance, every conversation
\* created by an event of a session is owned by that session's user, and every
\* message stored by a turn of a session is in a conversation owned by that
\* session's user.
C34_SessionIsolation ==
    [][SessionEvent =>
          /\ \A c \in (Len(conversations) + 1)..Len(conversations') :
                OwnedBySession(c, last'.session)
          /\ \A k \in (Len(messages) + 1)..Len(messages') :
                last'.op = "send_message" =>
                    OwnedBySession(messages'[k].conversation_id, last'.session)]_vars

\* C35: when two callers have made get_or_create_user calls with the same
\* username, however their statements interleaved, at most one user row has
\* that username, both calls returned that user and neither returned the
\* failure marker.
C35_ConcurrentGetOrCreateUser ==
    \A p, q \in Callers :
        /\ p # q
        /\ calls[p].pc = "returned" /\ calls[p].op = "get_or_create_user"
        /\ calls[q].pc = "returned" /\ calls[q].op = "get_or_create_user"
        /\ calls[p].username = calls[q].username
        => /\ Cardinality({u \in 1..Len(users) : users[u].username = calls[p].username}) <= 1
           /\ calls[p].ret # None
           /\ calls[q].ret # None
           /\ calls[p].ret = calls[q].ret

\* no caller is inside a call
Quiescent == \A p \in Callers : Free(p)

\* C36: with concurrent create_message calls on a conversation, each reading
\* the clock and later committing its touch, the committed updated_at of a
\* conversation never decreases from one state to the next, and once the
\* calls have returned it is >= the created_at of every message of the
\* conversation.
C36_ConcurrentTouchMonotonic ==
    /\ [][\A c \in 1..Len(conversations) :
             conversations'[c].updated_at >= conversations[c].updated_at]_vars
    /\ [](Quiescent =>
             \A k \in 1..Len(messages) :
                 conversations[messages[k].conversation_id].updated_at >=
                     messages[k].created_at)

\* the welcome messages of conversation c
WelcomeMessages(c) ==
    {k \in 1..Len(messages) :
        /\ messages[k].conversation_id = c
        /\ messages[k].message_type = BOT
        /\ messages[k].content = WelcomeContent}

\* C37: a conversation holds at most one welcome BOT message: a page load
\* adds it only to a conversation without messages, however often and in
\* whatever order pages are loaded.
C37_AtMostOneWelcome ==
    \A c \in 1..Len(conversations) : Cardinality(WelcomeMessages(c)) <= 1

\* conversation c is stored and soft-deleted
SoftDeleted(c) == c \in 1..Len(conversations) /\ ~conversations[c].is_active

\* C38: create_message, process_user_message and update_conversation_title
\* succeed on a soft-deleted conversation as on an active one: a turn stores
\* its USER message, touching updated_at, and its reply; a rename changes the
\* title; load_conversation makes the conversation the current one; and
\* is_active stays false.
C38_SoftDeletedStillWritable ==
    [][/\ \A c \in 1..Len(conversations) : SoftDeleted(c) => ~conversations'[c].is_active
       /\ (/\ last'.op = "send_message"
           /\ current_conversation # None
           /\ SoftDeleted(current_conversation[1].id)
           /\ ~Blank(last'.content))
          => /\ last'.user_message # None
             /\ last'.bot_message # None
             /\ messages' = messages \o <<last'.user_message[1], last'.bot_message[1]>>
             /\ last'.user_message[1].conversation_id = current_conversation[1].id
             /\ last'.bot_message[1].conversation_id = current_conversation[1].id
             /\ conversations'[current_conversation[1].id].updated_at >=
                    last'.user_message[1].created_at
       /\ (last'.op = "update_conversation_title" /\ SoftDeleted(last'.conversation_id))
          => /\ last'.ret # None
             /\ conversations'[last'.conversation_id].title = last'.title
             /\ conversations'[last'.conversation_id].updated_at = now'
       /\ (last'.op = "load_conversation" /\ SoftDeleted(last'.conversation_id))
          => /\ last'.ret = TRUE
             /\ current_conversation' = Some(conversations[last'.conversation_id])]_vars

\* a turn was stored in a soft-deleted conversation that had been loaded
C38_Witness ==
    /\ last.op = "send_message"
    /\ last.user_message # None
    /\ last.bot_message # None
    /\ ~conversations[last.user_message[1].conversation_id].is_active
    /\ conversations[last.user_message[1].conversation_id].updated_at >
           conversations[last.user_message[1].conversation_id].created_at

\* a soft-deleted conversation was loaded as the current conversation
C38_WitnessLoaded ==
    /\ last.op = "load_conversation"
    /\ last.ret = TRUE
    /\ SoftDeleted(last.conversation_id)
    /\ current_conversation = Some(conversations[last.conversation_id])

====
